---------------------------- MODULE Spec2Model ----------------------------
(***************************************************************************)
(* A model of iyes_loopless: conditional systems (src/src/condition.rs),   *)
(* the fixed-timestep stage (src/src/fixedtimestep.rs) and the state       *)
(* transition stage (src/src/state.rs).                                    *)
(*                                                                         *)
(* Each of the three parts has its own variables, initial condition and    *)
(* next-state relation; a part that a specification does not exercise is   *)
(* held in its "not constructed" state.                                    *)
(***************************************************************************)
EXTENDS Integers, Sequences, FiniteSets, TLC

VARIABLES
    \* ---- conditional systems (condition.rs) ----
    conditions,     \* ConditionalSystemDescriptor.conditions / ConditionalSystem.conditions
    built,          \* TRUE once into_descriptor produced the ConditionalSystem
    insertLog,      \* the predicates in the order the run_if calls were made
    evalLog,        \* the predicates run_unsafe evaluated in its latest invocation
    sysRan,         \* whether the main system ran in the latest invocation
    counterC,       \* how many times the main system has run
    lastOut,        \* what each predicate returns (would return) in the latest invocation
    gateLog         \* per invocation: did every predicate return true

condVars == <<conditions, built, insertLog, evalLog, sysRan, counterC, lastOut, gateLog>>

VARIABLES
    \* ---- fixed timestep (fixedtimestep.rs) ----
    stage,          \* per label: the FixedTimestepStage with that label
    timesteps,      \* the FixedTimesteps resource of the world
    pc,             \* where control is in FixedTimestepStage::run
    obs,            \* per label: what an observer of the stage has counted
    writeLog        \* the writes user code made to the registry entries: how many,
                    \* and the first one

ftsVars == <<stage, timesteps, pc, obs, writeLog>>

VARIABLES
    \* ---- states (state.rs) ----
    driver,         \* the StateTransitionStage<T>
    current_state,  \* the CurrentState<T> resource of the world
    next_state,     \* the NextState<T> resource of the world
    spc,            \* where control is in StateTransitionStage::run
    trace,          \* what the driver did in its latest invocation, in order
    sobs            \* what an observer of the driver has counted

stVars == <<driver, current_state, next_state, spc, trace, sobs>>

VARIABLES
    \* ---- condition sets (condition.rs) ----
    csset,          \* the ConditionSet / ConditionSystemSet being built
    sset,           \* the SystemSet it was converted into
    locals,         \* per predicate instance: its local state (how often it ran)
    setObs          \* what an observer of the wrappers of the set has counted

setVars == <<csset, sset, locals, setObs>>

VARIABLES
    \* ---- data access of a conditional system (condition.rs) ----
    csys,           \* a ConditionalSystem: system, conditions and the two access sets
    archetypes,     \* the archetypes of the world, each the set of its components
    accObs          \* the access sets of csys before the latest call on it

accVars == <<csys, archetypes, accObs>>

VARIABLES
    \* ---- predicates on a resource (condition.rs) ----
    world_res,      \* the resource R of the world, as Option<Res<R>> shows it
    existed,        \* the Local<bool> of one run_if_resource_removed predicate
    robs,           \* observer: what the evaluations of that predicate saw and returned
    gobs            \* observer: the latest evaluation of the gates on CurrentState

resVars == <<world_res, existed, robs, gobs>>

vars == <<condVars, ftsVars, stVars, setVars, accVars, resVars>>

otherThanCond == <<ftsVars, stVars, setVars, accVars, resVars>>
otherThanFts == <<condVars, stVars, setVars, accVars, resVars>>
otherThanState == <<condVars, ftsVars, setVars, accVars, resVars>>
otherThanSet == <<condVars, ftsVars, stVars, accVars, resVars>>
otherThanAcc == <<condVars, ftsVars, stVars, setVars, resVars>>
otherThanRes == <<condVars, ftsVars, stVars, setVars, accVars>>

-----------------------------------------------------------------------------
(* Bounds *)

\* how many predicates a wrapper gets at most
MaxConds == 3
\* how many times the wrapper is invoked at most
MaxRuns == 5
\* how many predicates a ConditionSet gets, how many systems, and how many
\* times its wrappers are invoked in all, at most
MaxSetConds == 2
MaxSystems == 2
MaxSetRuns == 2
\* how many predicates the wrapper whose data access is followed has, how many
\* archetypes the world gets, and how many calls are made on the wrapper, at most
MaxAccConds == 2
MaxArchetypes == 2
MaxAccCalls == 3
\* how many child stages a fixed timestep stage gets at most
MaxChildren == 2
\* how many times FixedTimestepStage::run is invoked at most
MaxTicks == 6
\* how many times it is invoked at most when user code writes to the registry
MaxCtlTicks == 3
MaxLockTicks == 5
MaxPasses == 3
MaxTwoTicks == 2
\* how many writes user code makes to the registry at most
MaxWrites == 2
\* how many times StateTransitionStage::run is invoked at most
MaxInvocations == 2
\* how many times enter/exit stages write NextState at most
MaxInnerWrites == 2
\* how many times user code outside the driver writes a state resource at most
MaxOuterWrites == 2
\* how often user code removes CurrentState, at most
MaxRemovals == 1
\* how many times a system gated on the resource R is invoked at most
MaxResRuns == 4
\* how many times user code inserts or removes the resource R at most
MaxResWrites == 4

PredIds == 1..MaxConds

-----------------------------------------------------------------------------
(* Helpers *)

Range(s) == {s[i] : i \in 1..Len(s)}

RECURSIVE CountTrue(_)
CountTrue(s) == IF s = <<>> THEN 0
                ELSE (IF Head(s) THEN 1 ELSE 0) + CountTrue(Tail(s))

-----------------------------------------------------------------------------
(* Conditional systems *)

\* IntoConditionalSystem::into_conditional: a descriptor with no conditions
InitCond ==
    /\ conditions = <<>>
    /\ built = FALSE
    /\ insertLog = <<>>
    /\ evalLog = <<>>
    /\ sysRan = FALSE
    /\ counterC = 0
    /\ lastOut = [p \in PredIds |-> TRUE]
    /\ gateLog = <<>>


\* a plausible slip: the single-system builder prepends, as ConditionSet does
push_front(conds, p) == <<p>> \o conds

\* Vec::push in ConditionHelpers::run_if
push(conds, p) == Append(conds, p)

\* ConditionHelpers for ConditionalSystemDescriptor::run_if
run_if(p) ==
    /\ ~built
    /\ Len(conditions) < MaxConds
    /\ p \notin Range(conditions)
    /\ conditions' = push(conditions, p)
    /\ insertLog' = Append(insertLog, p)
    /\ UNCHANGED <<built, evalLog, sysRan, counterC, lastOut, gateLog, otherThanCond>>

\* IntoSystemDescriptor for ConditionalSystemDescriptor::into_descriptor
into_descriptor ==
    /\ ~built
    /\ built' = TRUE
    /\ UNCHANGED <<conditions, insertLog, evalLog, sysRan, counterC, lastOut, gateLog, otherThanCond>>

\* the loop of run_unsafe from position i on: the predicates it evaluates, and
\* whether it falls through to the main system
RECURSIVE eval_conditions(_, _, _)
eval_conditions(conds, out, i) ==
    IF i > Len(conds) THEN [log |-> <<>>, run |-> TRUE]
    ELSE IF ~out[conds[i]] THEN [log |-> <<conds[i]>>, run |-> FALSE]
    ELSE LET rest == eval_conditions(conds, out, i + 1)
         IN  [log |-> <<conds[i]>> \o rest.log, run |-> rest.run]

\* a plausible slip: the loop does not return on a false predicate, and the
\* main system runs on the strength of the last one
RECURSIVE eval_no_short_circuit(_, _, _)
eval_no_short_circuit(conds, out, i) ==
    IF i > Len(conds) THEN [log |-> <<>>, run |-> TRUE]
    ELSE LET rest == eval_no_short_circuit(conds, out, i + 1)
         IN  [log |-> <<conds[i]>> \o rest.log,
              run |-> IF i = Len(conds) THEN out[conds[i]] ELSE rest.run]

\* a plausible slip: run_unsafe without the early return
run_unsafe_no_return(conds, out) == eval_no_short_circuit(conds, out, 1)

\* ConditionalSystem::run_unsafe, as a function of what the predicates return
run_unsafe_result(conds, out) == eval_conditions(conds, out, 1)

\* ConditionalSystem::run_unsafe: one invocation of the wrapper
run_unsafe ==
    /\ built
    /\ Len(gateLog) < MaxRuns
    /\ \E out \in [PredIds -> BOOLEAN] :
         LET r == run_unsafe_result(conditions, out)
         IN  /\ evalLog' = r.log
             /\ sysRan' = r.run
             /\ counterC' = counterC + (IF r.run THEN 1 ELSE 0)
             /\ lastOut' = out
             /\ gateLog' = Append(gateLog, \A i \in 1..Len(insertLog) : out[insertLog[i]])
    /\ UNCHANGED <<conditions, built, insertLog, otherThanCond>>

-----------------------------------------------------------------------------
(* Fixed timestep.  Durations are whole milliseconds. *)

\* TimestepName values
Labels == {"L1", "L2"}
\* Option::None of a TimestepName
None == "None"
\* Time::delta() values of a host tick; NoTime: the Time resource is missing
Deltas == {40, 120}
NoTime == -1
\* the timestep the stages are constructed with
InitialStep == 100
\* values user code writes into a registry entry
StepWrites == {50}
AccWrites == {0, 150}
ChildIds == 1..MaxChildren

\* rate_lock: (n_frames, exit_deviation); max stands for n_frames = u32::MAX,
\* exit_deviation is the fraction num/den
DefaultRateLock == [max |-> TRUE, n |-> 0, num |-> 0, den |-> 1]

\* the deltas Time gives to a stage with a rate lock, and the rate locks set:
\* with step 100 and exit_deviation 7/10, a locked stage (accumulator 50) is
\* within the deviation for 40 and 120 and outside it for 10
LockDeltas == {10, 40, 120}
RateLocks == {[max |-> FALSE, n |-> 2, num |-> 7, den |-> 10],
              [max |-> FALSE, n |-> 1, num |-> 7, den |-> 10]}

\* an entry of FixedTimesteps.info that is not there
NoInfo == [present |-> FALSE, step |-> 0, accumulator |-> 0, paused |-> FALSE]

\* FixedTimestepInfo { step, accumulator, paused } taken from the stage's fields
Info(st) == [present |-> TRUE, step |-> st.step,
             accumulator |-> st.accumulator, paused |-> st.paused]

\* the world holds no FixedTimesteps resource
NoTimesteps == [exists |-> FALSE, info |-> [l \in Labels |-> NoInfo], current |-> None]

\* a label no FixedTimestepStage was constructed for
NoStage == [exists |-> FALSE, step |-> 0, accumulator |-> 0, paused |-> FALSE,
            stages |-> <<>>, rate_lock |-> DefaultRateLock, lock_accum |-> 0]

\* FixedTimestepStage::new
new(timestep) == [exists |-> TRUE, step |-> timestep, accumulator |-> 0,
                  paused |-> FALSE, stages |-> <<>>,
                  rate_lock |-> DefaultRateLock, lock_accum |-> 0]

\* a plausible slip: a new child goes to the front of the list
add_stage_front(st, c) == [st EXCEPT !.stages = <<c>> \o @]

\* FixedTimestepStage::add_stage on the stage's fields
add_stage_to(st, c) == [st EXCEPT !.stages = Append(@, c)]

\* FixedTimestepStage::paused, the builder method
paused(st) == [st EXCEPT !.paused = TRUE]

\* FixedTimestepStage::from_stage
from_stage(timestep, c) == add_stage_to(new(timestep), c)

\* a plausible slip: the info is stored under every label
store_every_label(ts, st, l) ==
    [ts EXCEPT !.exists = TRUE, !.info = [k \in Labels |-> Info(st)], !.current = l]

\* a plausible slip: the info is stored and current is left as it was
store_info_only(ts, st, l) ==
    [ts EXCEPT !.exists = TRUE, !.info[l] = Info(st)]

\* a plausible slip: the stored info keeps the accumulator the entry had
store_step_paused(ts, st, l) ==
    [ts EXCEPT !.exists = TRUE,
               !.info[l] = [Info(st) EXCEPT !.accumulator = ts.info[l].accumulator],
               !.current = l]

\* FixedTimestepStage::store_fixedtimestepinfo: the registry afterwards
store_fixedtimestepinfo(ts, st, l) ==
    [ts EXCEPT !.exists = TRUE, !.info[l] = Info(st), !.current = l]

\* a plausible slip: the start of run takes the registry's accumulator too
sync_all(st, ts, l) ==
    IF ts.exists /\ ts.info[l].present
    THEN [st EXCEPT !.step = ts.info[l].step, !.paused = ts.info[l].paused,
                    !.accumulator = ts.info[l].accumulator]
    ELSE st

\* a plausible slip: the start of run ignores the registry's paused flag
sync_step_only(st, ts, l) ==
    IF ts.exists /\ ts.info[l].present
    THEN [st EXCEPT !.step = ts.info[l].step]
    ELSE st

\* run, the reconciliation at its start: step and paused come from the registry
sync(st, ts, l) ==
    IF ts.exists /\ ts.info[l].present
    THEN [st EXCEPT !.step = ts.info[l].step, !.paused = ts.info[l].paused]
    ELSE st

\* a plausible slip: the remainder of the previous tick is dropped
accumulate_reset(acc, delta) == delta

\* run: self.accumulator += time.delta()
accumulate(acc, delta) == acc + delta

\* a plausible slip: a world without Time gives a delta of zero
time_delta_or_zero(t) == [some |-> TRUE, delta |-> IF t = NoTime THEN 0 ELSE t]

\* run: world.get_resource::<Time>() and its delta()
time_delta(t) == [some |-> t # NoTime, delta |-> t]

\* self.lock_accum < self.rate_lock.0 (never false for u32::MAX within the
\* number of ticks modelled)
lock_lt(st) == st.rate_lock.max \/ st.lock_accum < st.rate_lock.n

\* (overstep - 1.5).abs() >= self.rate_lock.1, in exact arithmetic
deviates(st) ==
    LET d == 2 * st.accumulator - 3 * st.step
        a == IF d < 0 THEN 0 - d ELSE d
    IN  a * st.rate_lock.den >= 2 * st.rate_lock.num * st.step

\* a plausible slip: in locked mode the accumulator is forced whatever the
\* deviation
rate_lock_check_always_force(st) ==
    IF ~lock_lt(st)
    THEN [st EXCEPT !.accumulator = st.step + (st.step \div 2)]
    ELSE st

\* a plausible slip: in locked mode the accumulator is left as the delta made it
rate_lock_check_no_force(st) ==
    IF ~lock_lt(st) /\ deviates(st) THEN [st EXCEPT !.lock_accum = 0] ELSE st

\* run: the rate-lock check before the loop
rate_lock_check(st) ==
    IF ~lock_lt(st)
    THEN IF deviates(st)
         THEN [st EXCEPT !.lock_accum = 0]
         ELSE [st EXCEPT !.accumulator = st.step + (st.step \div 2)]
    ELSE st

\* a plausible slip: an if in place of the while, one pass a tick at most
loop_cond_once(st) == st.accumulator >= st.step /\ pc.n_steps = 0

\* a plausible slip: the loop also stops when the stage is paused
loop_cond_unpaused(st) == st.accumulator >= st.step /\ ~st.paused

\* a plausible slip: the loop stops when exactly one step is left
loop_cond_strict(st) == st.accumulator > st.step

\* run: while self.accumulator >= self.step
loop_cond(st) == st.accumulator >= st.step

\* a plausible slip: after a child only step and paused are copied back
adopt_no_accumulator(st, ts, l) ==
    IF ts.exists /\ ts.info[l].present
    THEN [st EXCEPT !.step = ts.info[l].step,
                    !.paused = ts.info[l].paused]
    ELSE st

\* a plausible slip: after a child only accumulator and paused are copied back
adopt_no_step(st, ts, l) ==
    IF ts.exists /\ ts.info[l].present
    THEN [st EXCEPT !.accumulator = ts.info[l].accumulator,
                    !.paused = ts.info[l].paused]
    ELSE st

\* run: after each child stage the registry entry is copied back
adopt(st, ts, l) ==
    IF ts.exists /\ ts.info[l].present
    THEN [st EXCEPT !.step = ts.info[l].step,
                    !.accumulator = ts.info[l].accumulator,
                    !.paused = ts.info[l].paused]
    ELSE st

\* a plausible slip: a tick with no pass or several passes leaves lock_accum
bookkeeping_no_reset(st, n) ==
    IF n = 1
    THEN LET s1 == IF lock_lt(st) THEN [st EXCEPT !.lock_accum = @ + 1] ELSE st
         IN  IF ~lock_lt(s1)
             THEN [s1 EXCEPT !.accumulator = s1.step \div 2]
             ELSE s1
    ELSE st

\* run: the rate-lock bookkeeping after the loop
bookkeeping(st, n) ==
    IF n = 1
    THEN LET s1 == IF lock_lt(st) THEN [st EXCEPT !.lock_accum = @ + 1] ELSE st
         IN  IF ~lock_lt(s1)
             THEN [s1 EXCEPT !.accumulator = s1.step \div 2]
             ELSE s1
    ELSE [st EXCEPT !.lock_accum = 0]

\* what user code may write into a registry entry (the pub fields of
\* FixedTimestepInfo, pause/unpause)
Writes == [field : {"step"}, val : StepWrites]
          \cup [field : {"accumulator"}, val : AccWrites]
          \cup [field : {"paused"}, val : {0, 1}]
NoWrite == [field |-> "none", val |-> 0]

\* FixedTimesteps::get_current
get_current(ts) == IF ts.exists /\ ts.current # None THEN ts.info[ts.current] ELSE NoInfo

\* the timesteps FixedTimesteps.info holds
Entries(ts) == {l \in Labels : ts.info[l].present}

\* a plausible slip: get_single gives an entry whenever there is one
get_single_any(ts) ==
    IF Entries(ts) = {} THEN NoInfo ELSE ts.info[CHOOSE l \in Entries(ts) : TRUE]

\* FixedTimesteps::get_single
get_single(ts) ==
    IF Cardinality(Entries(ts)) # 1 THEN NoInfo
    ELSE ts.info[CHOOSE l \in Entries(ts) : TRUE]

\* Option::expect: the value, or a panic
expect(opt) == [panics |-> ~opt.present, info |-> opt]

\* FixedTimesteps::single
single(ts) == expect(get_single(ts))

\* FixedTimesteps::current (the name current is taken by run's local of
\* StateTransitionStage)
current_expect(ts) == expect(get_current(ts))

\* FixedTimesteps::get_current_mut
get_current_mut(ts) == IF ts.exists /\ ts.current # None THEN ts.info[ts.current] ELSE NoInfo

\* FixedTimesteps::current_mut
current_mut(ts) == expect(get_current_mut(ts))

\* FixedTimesteps::get_single_mut
get_single_mut(ts) ==
    IF Cardinality(Entries(ts)) # 1 THEN NoInfo
    ELSE ts.info[CHOOSE l \in Entries(ts) : TRUE]

\* FixedTimesteps::single_mut
single_mut(ts) == expect(get_single_mut(ts))

\* the registry after user code wrote w into the entry of l
write(ts, l, w) ==
    IF w.field = "step" THEN [ts EXCEPT !.info[l].step = w.val]
    ELSE IF w.field = "accumulator" THEN [ts EXCEPT !.info[l].accumulator = w.val]
    ELSE IF w.field = "paused" THEN [ts EXCEPT !.info[l].paused = (w.val = 1)]
    ELSE ts

Idle == [at |-> "idle", l |-> None, child |-> 0, n_steps |-> 0]

NoWrites == [n |-> 0, first |-> [by |-> "nobody", l |-> None, run |-> 0, pass |-> 0,
                                 child |-> 0, field |-> "none", val |-> 0]]

\* the log of writes after one more write
logged(log, entry) == [n |-> log.n + 1, first |-> IF log.n = 0 THEN entry ELSE log.first]

\* runs: invocations of run; D: the deltas Time gave on them, summed; N: passes
\* completed; of the latest run: kind (how it went), prev (how the one before
\* went), delta, accBefore (the stage's accumulator when it began), pausedAt
\* (the registry entry said paused when it began), lastN (its passes), trace (the
\* children it ran), lockBefore (the stage's lock_accum when it began); added: the
\* children in the order of the add_stage calls; streak: for a stage with a
\* rate lock, the ticks in a row, skipped ones left out, that made one pass;
\* stored: the latest run changed the registry
NoObs == [runs |-> 0, D |-> 0, N |-> 0, kind |-> "none", prev |-> "none",
          delta |-> 0, accBefore |-> 0, pausedAt |-> FALSE, lastN |-> 0,
          trace |-> <<>>, added |-> <<>>, lockBefore |-> 0, streak |-> 0,
          stored |-> FALSE]

\* no fixed timestep stage in the schedule
NoFts ==
    /\ stage = [l \in Labels |-> NoStage]
    /\ timesteps = NoTimesteps
    /\ pc = Idle
    /\ obs = [l \in Labels |-> NoObs]
    /\ writeLog = NoWrites

\* one stage, labelled L1: built with new, or by
\* AppLooplessFixedTimestepExt::add_fixed_timestep_before_stage, which
\* also stores its info in the world
InitFts ==
    /\ pc = Idle
    /\ writeLog = NoWrites
    /\ \E helper \in BOOLEAN :
         LET st == IF helper THEN from_stage(InitialStep, 1) ELSE new(InitialStep)
         IN  /\ stage = [l \in Labels |-> IF l = "L1" THEN st ELSE NoStage]
             /\ timesteps = IF helper
                            THEN store_fixedtimestepinfo(NoTimesteps, st, "L1")
                            ELSE NoTimesteps
             /\ obs = [l \in Labels |->
                         IF l = "L1" THEN [NoObs EXCEPT !.added = st.stages]
                         ELSE NoObs]

\* one stage, labelled L1: built with new, with new and paused, or by the App
\* helper, which also stores the info in the world
Builds == {"new", "paused", "helper"}
InitFtsBuilt ==
    /\ pc = Idle
    /\ writeLog = NoWrites
    /\ \E build \in Builds :
         LET st == IF build = "helper" THEN from_stage(InitialStep, 1)
                   ELSE IF build = "paused" THEN paused(new(InitialStep))
                   ELSE new(InitialStep)
         IN  /\ stage = [l \in Labels |-> IF l = "L1" THEN st ELSE NoStage]
             /\ timesteps = IF build = "helper"
                            THEN store_fixedtimestepinfo(NoTimesteps, st, "L1")
                            ELSE NoTimesteps
             /\ obs = [l \in Labels |->
                         IF l = "L1" THEN [NoObs EXCEPT !.added = st.stages]
                         ELSE NoObs]

\* the timesteps FixedTimestepStage::new is given when nothing keeps user code
\* from passing Duration::ZERO, and the step user code then writes
Timesteps == {0, InitialStep}
ZeroWrites == [field : {"step"}, val : {0}]

\* one stage, labelled L1, built like in InitFts with any of Timesteps
InitFtsAny ==
    /\ pc = Idle
    /\ writeLog = NoWrites
    /\ \E helper \in BOOLEAN, timestep \in Timesteps :
         LET st == IF helper THEN from_stage(timestep, 1) ELSE new(timestep)
         IN  /\ stage = [l \in Labels |-> IF l = "L1" THEN st ELSE NoStage]
             /\ timesteps = IF helper
                            THEN store_fixedtimestepinfo(NoTimesteps, st, "L1")
                            ELSE NoTimesteps
             /\ obs = [l \in Labels |->
                         IF l = "L1" THEN [NoObs EXCEPT !.added = st.stages]
                         ELSE NoObs]

\* two stages, labelled L1 and L2 and built in this order, each like in InitFts
InitFtsBoth ==
    /\ pc = Idle
    /\ writeLog = NoWrites
    /\ \E helper \in [Labels -> BOOLEAN] :
         LET st == [l \in Labels |-> IF helper[l] THEN from_stage(InitialStep, 1)
                                     ELSE new(InitialStep)]
             ts1 == IF helper["L1"]
                    THEN store_fixedtimestepinfo(NoTimesteps, st["L1"], "L1")
                    ELSE NoTimesteps
         IN  /\ stage = st
             /\ timesteps = IF helper["L2"]
                            THEN store_fixedtimestepinfo(ts1, st["L2"], "L2")
                            ELSE ts1
             /\ obs = [l \in Labels |-> [NoObs EXCEPT !.added = st[l].stages]]

\* FixedTimestepStage::add_stage, before the stage's first run; the children
\* are numbered in the order of the add_stage calls
add_stage(l, c) ==
    /\ pc.at = "idle"
    /\ stage[l].exists
    /\ obs[l].runs = 0
    /\ c = Len(obs[l].added) + 1
    /\ stage' = [stage EXCEPT ![l] = add_stage_to(@, c)]
    /\ obs' = [obs EXCEPT ![l].added = Append(@, c)]
    /\ UNCHANGED <<timesteps, pc, writeLog, otherThanFts>>

\* FixedTimestepStage::set_rate_lock on the stage's fields
set_rate_lock_to(st, rl) == [st EXCEPT !.rate_lock = rl]

\* FixedTimestepStage::set_rate_lock, before the stage's first run; both of its
\* assertions hold for the arguments
set_rate_lock(l, rl) ==
    /\ pc.at = "idle"
    /\ stage[l].exists
    /\ obs[l].runs = 0
    /\ stage[l].rate_lock = DefaultRateLock
    /\ rl.num > 0 /\ rl.n > 0
    /\ stage' = [stage EXCEPT ![l] = set_rate_lock_to(@, rl)]
    /\ UNCHANGED <<timesteps, pc, obs, writeLog, otherThanFts>>

\* user code outside the stage writes into the registry entry of l
outside_write(l, w) ==
    /\ pc.at = "idle"
    /\ timesteps.exists /\ timesteps.info[l].present
    /\ writeLog.n < MaxWrites
    /\ timesteps' = write(timesteps, l, w)
    /\ writeLog' = logged(writeLog, [by |-> "outside", l |-> l, run |-> obs[l].runs,
                                     pass |-> 0, child |-> 0,
                                     field |-> w.field, val |-> w.val])
    /\ UNCHANGED <<stage, pc, obs, otherThanFts>>

\* FixedTimestepStage::run up to the loop: reconcile, return if paused or if
\* there is no Time, accumulate, rate-lock check
run_begin(l, t, maxTicks) ==
    /\ pc.at = "idle"
    /\ stage[l].exists
    /\ obs[l].runs < maxTicks
    /\ LET s1 == sync(stage[l], timesteps, l)
           o1 == [obs[l] EXCEPT !.runs = @ + 1,
                                !.D = @ + (IF t = NoTime THEN 0 ELSE t),
                                !.delta = t,
                                !.prev = obs[l].kind,
                                !.accBefore = stage[l].accumulator,
                                !.pausedAt = (timesteps.exists /\ timesteps.info[l].present
                                              /\ timesteps.info[l].paused),
                                !.lastN = 0,
                                !.trace = <<>>,
                                !.lockBefore = stage[l].lock_accum,
                                !.stored = FALSE]
       IN  IF s1.paused
           THEN /\ stage' = [stage EXCEPT ![l] = s1]
                /\ obs' = [obs EXCEPT ![l] = [o1 EXCEPT !.kind = "paused"]]
                /\ pc' = pc
           ELSE IF ~time_delta(t).some
           THEN /\ stage' = [stage EXCEPT ![l] = s1]
                /\ obs' = [obs EXCEPT ![l] = [o1 EXCEPT !.kind = "notime"]]
                /\ pc' = pc
           ELSE /\ stage' = [stage EXCEPT ![l] =
                       rate_lock_check([s1 EXCEPT !.accumulator =
                                                   accumulate(@, time_delta(t).delta)])]
                /\ obs' = [obs EXCEPT ![l] = [o1 EXCEPT !.kind = "running"]]
                /\ pc' = [at |-> "while", l |-> l, child |-> 0, n_steps |-> 0]
    /\ UNCHANGED <<timesteps, writeLog, otherThanFts>>

\* run: the loop condition holds; one step is taken off the accumulator and the
\* info is stored; the children of the pass are next
pass_begin ==
    /\ pc.at = "while"
    /\ loop_cond(stage[pc.l])
    /\ LET l == pc.l
           s1 == [stage[l] EXCEPT !.accumulator = @ - stage[l].step]
       IN  /\ stage' = [stage EXCEPT ![l] = s1]
           /\ timesteps' = store_fixedtimestepinfo(timesteps, s1, l)
           /\ IF s1.stages = <<>>
              THEN /\ pc' = [pc EXCEPT !.n_steps = @ + 1]
                   /\ obs' = [obs EXCEPT ![l].N = @ + 1,
                                         ![l].stored = @ \/ timesteps' # timesteps]
              ELSE /\ pc' = [pc EXCEPT !.at = "child", !.child = 1]
                   /\ obs' = [obs EXCEPT ![l].stored = @ \/ timesteps' # timesteps]
    /\ UNCHANGED <<writeLog, otherThanFts>>

\* run: one child stage runs (its systems may write w into the registry entry),
\* then the entry is copied back into the stage
child_run(w) ==
    /\ pc.at = "child"
    /\ w = NoWrite \/ writeLog.n < MaxWrites
    /\ LET l == pc.l
           ts1 == write(timesteps, l, w)
           last == pc.child = Len(stage[l].stages)
       IN  /\ timesteps' = ts1
           /\ stage' = [stage EXCEPT ![l] = adopt(@, ts1, l)]
           /\ writeLog' = IF w = NoWrite THEN writeLog
                          ELSE logged(writeLog,
                                 [by |-> "child", l |-> l, run |-> obs[l].runs,
                                  pass |-> pc.n_steps + 1, child |-> pc.child,
                                  field |-> w.field, val |-> w.val])
           /\ obs' = [obs EXCEPT ![l].trace = Append(@, stage[l].stages[pc.child]),
                                 ![l].N = IF last THEN @ + 1 ELSE @,
                                 ![l].stored = @ \/ timesteps' # timesteps]
           /\ pc' = IF last
                    THEN [pc EXCEPT !.at = "while", !.child = 0, !.n_steps = @ + 1]
                    ELSE [pc EXCEPT !.child = @ + 1]
    /\ UNCHANGED otherThanFts

\* run after the loop: current is cleared, the info is stored if no pass ran,
\* rate-lock bookkeeping
run_end ==
    /\ pc.at = "while"
    /\ ~loop_cond(stage[pc.l])
    /\ LET l == pc.l
           ts1 == IF timesteps.exists THEN [timesteps EXCEPT !.current = None]
                  ELSE timesteps
       IN  /\ timesteps' = IF pc.n_steps = 0
                           THEN store_fixedtimestepinfo(ts1, stage[l], l)
                           ELSE ts1
           /\ stage' = [stage EXCEPT ![l] = bookkeeping(@, pc.n_steps)]
           /\ obs' = [obs EXCEPT ![l].kind = "ran", ![l].lastN = pc.n_steps,
                                 ![l].stored = @ \/ timesteps' # timesteps,
                                 ![l].streak = IF stage[l].rate_lock.max THEN 0
                                               ELSE IF pc.n_steps = 1 THEN @ + 1
                                               ELSE 0]
    /\ pc' = Idle
    /\ UNCHANGED <<writeLog, otherThanFts>>

-----------------------------------------------------------------------------
(* States *)

\* the values of the state type T
T == {"A", "B", "C"}

\* a resource the world does not hold
NoRes == [present |-> FALSE, val |-> "-"]
\* CurrentState(v) / NextState(v) in the world
Res(v) == [present |-> TRUE, val |-> v]

\* no StateTransitionStage was constructed
NoDriver == [exists |-> FALSE, enter_stages |-> {}, exit_stages |-> {}, default |-> "-"]

\* StateTransitionStage::new, then set_enter_stage / set_exit_stage for the
\* states of enter and exit
new_driver(default, enter, exit) ==
    [exists |-> TRUE, enter_stages |-> enter, exit_stages |-> exit, default |-> default]

SIdle == [at |-> "idle", current |-> "-", next |-> "-"]

\* runs: invocations of run; of the latest one: trans (transitions made), inner
\* (NextState writes by its enter/exit stages), asked and was (the values of
\* NextState and CurrentState it found, "-" for an absent resource); outer:
\* NextState writes from outside the driver; direct: changes of CurrentState from
\* outside the driver; innerTotal: writes by stages over all runs; outerAt: outer
\* when the latest run was invoked; removed: removals of CurrentState; over:
\* the latest write from outside that replaced a NextState: which of the writes
\* it was, the value it replaced and the value it wrote
NoSObs == [runs |-> 0, trans |-> 0, inner |-> 0, outer |-> 0, direct |-> 0,
           innerTotal |-> 0, asked |-> "-", was |-> "-", outerAt |-> 0,
           removed |-> 0, over |-> [at |-> 0, old |-> "-", new |-> "-"]]

NoState ==
    /\ driver = NoDriver
    /\ current_state = NoRes
    /\ next_state = NoRes
    /\ spc = SIdle
    /\ trace = <<>>
    /\ sobs = NoSObs

\* the enter/exit stages a driver is built with
StageSets == {{}, {"B"}, T}

InitState ==
    /\ \E enter \in StageSets, exit \in StageSets : driver = new_driver("A", enter, exit)
    /\ current_state = NoRes
    /\ next_state = NoRes
    /\ spc = SIdle
    /\ trace = <<>>
    /\ sobs = NoSObs

\* what the systems of an enter/exit stage do to the state resources: nothing,
\* or insert NextState(v)
Effects == {"-"} \cup T

\* a plausible slip: NextState is cleared once the stages of a transition have
\* run, so what they insert is lost
effect_dropped(ns, e) == ns

effect(ns, e) == IF e = "-" THEN ns ELSE Res(e)

\* a system outside the driver inserts NextState(v)
insert_next(v) ==
    /\ spc.at = "idle"
    /\ sobs.outer + sobs.direct < MaxOuterWrites
    /\ next_state' = Res(v)
    /\ sobs' = [sobs EXCEPT !.outer = @ + 1]
    /\ UNCHANGED <<driver, current_state, spc, trace, otherThanState>>

\* a system outside the driver inserts NextState(v) when there is none
insert_first(v) ==
    /\ ~next_state.present
    /\ insert_next(v)

\* a plausible slip: an insert leaves a resource that is there as it is
insert_resource_keep(old, v) == IF old.present THEN old ELSE Res(v)

\* World::insert_resource (Commands::insert_resource): the resource afterwards
insert_resource(old, v) == Res(v)

\* a system outside the driver inserts NextState(v) over one that is there
overwrite_next(v) ==
    /\ spc.at = "idle"
    /\ next_state.present
    /\ sobs.outer + sobs.direct < MaxOuterWrites
    /\ next_state' = insert_resource(next_state, v)
    /\ sobs' = [sobs EXCEPT !.outer = @ + 1,
                            !.over = [at |-> sobs.outer + 1, old |-> next_state.val,
                                      new |-> v]]
    /\ UNCHANGED <<driver, current_state, spc, trace, otherThanState>>

\* a system outside the driver changes the value of CurrentState directly
mutate_current(v) ==
    /\ spc.at = "idle"
    /\ current_state.present
    /\ sobs.outer + sobs.direct < MaxOuterWrites
    /\ current_state' = Res(v)
    /\ sobs' = [sobs EXCEPT !.direct = @ + 1]
    /\ UNCHANGED <<driver, next_state, spc, trace, otherThanState>>

\* StateTransitionStage::run is invoked
run_driver ==
    /\ spc.at = "idle"
    /\ driver.exists
    /\ sobs.runs < MaxInvocations
    /\ spc' = [SIdle EXCEPT !.at = "head"]
    /\ trace' = <<>>
    /\ sobs' = [sobs EXCEPT !.runs = @ + 1, !.trans = 0, !.inner = 0,
                            !.asked = next_state.val, !.was = current_state.val,
                            !.outerAt = sobs.outer]
    /\ UNCHANGED <<driver, current_state, next_state, otherThanState>>

\* a plausible slip: run makes one follow-up transition at most
loop_twice == IF sobs.trans < 1 THEN "head" ELSE "idle"

\* a plausible slip: run returns after one transition instead of looping
no_loop == "idle"

\* run: loop { ... }, control goes back to the top after a transition
loop == "head"

\* a plausible slip: the driver seeds CurrentState on its first invocation only
first_invocation(cs) == ~cs.present /\ sobs.runs = 1

\* a plausible slip: the driver seeds CurrentState whenever it looks
first_run_always(cs) == TRUE

\* a plausible slip: the driver also seeds CurrentState when it finds a value
\* other than its default, as if no transition of its own had led there
first_run_or_moved(cs) == ~cs.present \/ cs.val # "A"

\* run: world.get_resource::<CurrentState<T>>() is None ("first run")
first_run(cs) == ~cs.present

\* run, top of the loop: read CurrentState, or insert the default on the first
\* run, whose enter stage (if any) is then run
loop_head ==
    /\ spc.at = "head"
    /\ IF ~first_run(current_state)
       THEN /\ spc' = [spc EXCEPT !.at = "take", !.current = current_state.val]
            /\ UNCHANGED <<current_state, trace>>
       ELSE /\ current_state' = Res(driver.default)
            /\ trace' = Append(trace, [ev |-> "init", s |-> driver.default,
                                       cur |-> driver.default, w |-> "-"])
            /\ spc' = IF driver.default \in driver.enter_stages
                      THEN [spc EXCEPT !.at = "init_enter"]
                      ELSE [spc EXCEPT !.at = "take", !.current = driver.default]
    /\ UNCHANGED <<driver, next_state, sobs, otherThanState>>

\* run: the enter stage of the default state runs; get_resource_or_insert_with
\* then reads CurrentState
init_enter_run(e) ==
    /\ spc.at = "init_enter"
    /\ e = "-" \/ sobs.innerTotal < MaxInnerWrites
    /\ next_state' = effect(next_state, e)
    /\ trace' = Append(trace, [ev |-> "enter", s |-> driver.default,
                               cur |-> current_state.val, w |-> e])
    /\ spc' = [spc EXCEPT !.at = "take", !.current = current_state.val]
    /\ sobs' = IF e = "-" THEN sobs
               ELSE [sobs EXCEPT !.inner = @ + 1, !.innerTotal = @ + 1]
    /\ UNCHANGED <<driver, current_state, otherThanState>>

\* a system outside the driver removes CurrentState
remove_current ==
    /\ spc.at = "idle"
    /\ current_state.present
    /\ sobs.removed < MaxRemovals
    /\ current_state' = NoRes
    /\ sobs' = [sobs EXCEPT !.removed = @ + 1]
    /\ UNCHANGED <<driver, next_state, spc, trace, otherThanState>>

\* World::get_resource_or_insert_with(|| CurrentState(default)): the resource
\* afterwards
get_resource_or_insert_with(cs, default) == IF cs.present THEN cs ELSE Res(default)

\* run: the enter stage of the default state runs and removes CurrentState;
\* get_resource_or_insert_with then inserts the default again
init_enter_removes ==
    /\ spc.at = "init_enter"
    /\ sobs.removed < MaxRemovals
    /\ current_state' = get_resource_or_insert_with(NoRes, driver.default)
    /\ trace' = Append(trace, [ev |-> "enter", s |-> driver.default,
                               cur |-> current_state.val, w |-> "gone"])
    /\ spc' = [spc EXCEPT !.at = "take", !.current = current_state'.val]
    /\ sobs' = [sobs EXCEPT !.removed = @ + 1]
    /\ UNCHANGED <<driver, next_state, otherThanState>>

\* a plausible slip: the current state is read once, when run is invoked, and
\* not again at the top of the loop
exit_key_stale(current, next) == IF sobs.was # "-" THEN sobs.was ELSE driver.default

\* a plausible slip: the exit stage is looked up by the next state
exit_key_next(current, next) == next

\* run: self.exit_stages.get_mut(&current)
exit_key(current, next) == current

\* a plausible slip: a transition is pending when NextState differs from the
\* current state
pending_if_changed(ns, current) == ns.present /\ ns.val # current

\* run: if let Some(NextState(next)) = next
pending(ns, current) == ns.present

\* a plausible slip: NextState is read and left in the world
get_resource(ns) == ns

\* what World::remove_resource::<NextState<T>>() leaves in the world
remove_resource(ns) == NoRes

\* run: world.remove_resource::<NextState<T>>(); break if there was none
take_next ==
    /\ spc.at = "take"
    /\ next_state' = remove_resource(next_state)
    /\ IF pending(next_state, spc.current)
       THEN /\ spc' = [spc EXCEPT !.next = next_state.val,
                         !.at = IF exit_key(spc.current, next_state.val) \in driver.exit_stages
                                THEN "exit" ELSE "set"]
            /\ trace' = Append(trace, [ev |-> "take", s |-> next_state.val,
                                       cur |-> current_state.val, w |-> "-"])
       ELSE /\ spc' = SIdle
            /\ trace' = trace
    /\ UNCHANGED <<driver, current_state, sobs, otherThanState>>

\* run: the exit stage of the current state runs
exit_run(e) ==
    /\ spc.at = "exit"
    /\ e = "-" \/ sobs.innerTotal < MaxInnerWrites
    /\ next_state' = effect(next_state, e)
    /\ trace' = Append(trace, [ev |-> "exit", s |-> exit_key(spc.current, spc.next),
                               cur |-> current_state.val, w |-> e])
    /\ spc' = [spc EXCEPT !.at = "set"]
    /\ sobs' = IF e = "-" THEN sobs
               ELSE [sobs EXCEPT !.inner = @ + 1, !.innerTotal = @ + 1]
    /\ UNCHANGED <<driver, current_state, otherThanState>>

\* run: world.insert_resource(CurrentState(next.clone()))
set_current ==
    /\ spc.at = "set"
    /\ current_state' = Res(spc.next)
    /\ trace' = Append(trace, [ev |-> "set", s |-> spc.next, cur |-> spc.next,
                               w |-> "-"])
    /\ sobs' = IF spc.next \in driver.enter_stages THEN sobs
               ELSE [sobs EXCEPT !.trans = @ + 1]
    /\ spc' = IF spc.next \in driver.enter_stages
              THEN [spc EXCEPT !.at = "enter"]
              ELSE [SIdle EXCEPT !.at = loop]
    /\ UNCHANGED <<driver, next_state, otherThanState>>

\* run: the enter stage of the next state runs
enter_run(e) ==
    /\ spc.at = "enter"
    /\ e = "-" \/ sobs.innerTotal < MaxInnerWrites
    /\ next_state' = effect(next_state, e)
    /\ trace' = Append(trace, [ev |-> "enter", s |-> spc.next,
                               cur |-> current_state.val, w |-> e])
    /\ spc' = [SIdle EXCEPT !.at = loop]
    /\ sobs' = IF e = "-" THEN [sobs EXCEPT !.trans = @ + 1]
               ELSE [sobs EXCEPT !.trans = @ + 1, !.inner = @ + 1, !.innerTotal = @ + 1]
    /\ UNCHANGED <<driver, current_state, otherThanState>>

\* run: the enter stage of the next state runs and removes CurrentState
enter_removes ==
    /\ spc.at = "enter"
    /\ sobs.removed < MaxRemovals
    /\ current_state' = NoRes
    /\ trace' = Append(trace, [ev |-> "enter", s |-> spc.next,
                               cur |-> current_state.val, w |-> "gone"])
    /\ spc' = [SIdle EXCEPT !.at = loop]
    /\ sobs' = [sobs EXCEPT !.trans = @ + 1, !.removed = @ + 1]
    /\ UNCHANGED <<driver, next_state, otherThanState>>

-----------------------------------------------------------------------------
(* Condition sets: ConditionSet, ConditionSystemSet, From<..> for SystemSet *)

\* the predicates given to ConditionSet::run_if, and those the systems of the
\* set got from their own run_if
SetPreds == {"q1", "q2"}
OwnPreds == {"p1", "p2"}
AllPreds == SetPreds \cup OwnPreds

\* the conditions the systems added to a set come with, by their own run_if
OwnConds == {<<>>, <<"p1">>, <<"p1", "p2">>}

\* what the predicates return in one invocation of a wrapper: all true, or
\* all but one
Outs == {[q \in AllPreds |-> q # f] : f \in AllPreds \cup {"none"}}

\* a predicate system as a wrapper holds it: made from the predicate pred for
\* the system number sys; its local state is locals[pred, sys]
Insts == AllPreds \X (0..MaxSystems)

\* nothing observed: runs counts the invocations of wrappers of the set; own
\* holds the predicates each system came with, in the order of the with_system
\* calls; per wrapper: invoked (how often it was invoked), evals (how often it
\* evaluated each predicate), and of its latest invocation last (the
\* predicates evaluated, in order), ran (the main system ran) and out (what
\* the predicates return)
NoSetObs == [runs |-> 0,
             own |-> <<>>,
             invoked |-> [k \in 1..MaxSystems |-> 0],
             evals |-> [k \in 1..MaxSystems |-> [q \in AllPreds |-> 0]],
             last |-> [k \in 1..MaxSystems |-> <<>>],
             ran |-> [k \in 1..MaxSystems |-> FALSE],
             out |-> [k \in 1..MaxSystems |-> [q \in AllPreds |-> TRUE]]]

NoSet ==
    /\ csset = [conditions |-> <<>>, systems |-> <<>>]
    /\ sset = [built |-> FALSE, systems |-> <<>>]
    /\ locals = [i \in Insts |-> 0]
    /\ setObs = NoSetObs

InitSet == NoSet

\* ConditionSet::run_if: an applicator for q is pushed; a ConditionSet has no
\* systems yet (with_system turns it into a ConditionSystemSet)
cs_run_if(q) ==
    /\ ~sset.built
    /\ csset.systems = <<>>
    /\ Len(csset.conditions) < MaxSetConds
    /\ q \notin Range(csset.conditions)
    /\ csset' = [csset EXCEPT !.conditions = Append(@, q)]
    /\ UNCHANGED <<sset, locals, setObs, otherThanSet>>

\* into_conditional().run_if(p1)...: the descriptor of system number k with
\* its own predicates, each made into a system of its own
own_descriptor(own, k) == [i \in 1..Len(own) |-> <<own[i], k>>]

\* ConditionSet::with_system / ConditionSystemSet::with_system
with_system(own) ==
    /\ ~sset.built
    /\ Len(csset.systems) < MaxSystems
    /\ csset' = [csset EXCEPT !.systems =
                    Append(@, own_descriptor(own, Len(csset.systems) + 1))]
    /\ setObs' = [setObs EXCEPT !.own = Append(@, own)]
    /\ UNCHANGED <<sset, locals, otherThanSet>>

\* a plausible slip: the applicator hands every system the same predicate system
condition_shared(q, k) == <<q, 0>>

\* the applicator: condition.clone() made into a system for system number k
condition_clone(q, k) == <<q, k>>

\* a plausible slip: the applicator pushes like the single-system run_if does
insert_back(conds, c) == Append(conds, c)

\* the applicator: system.conditions.insert(0, ..)
insert_front(conds, c) == <<c>> \o conds

\* From<ConditionSystemSet> for SystemSet: the applicators from index i on,
\* applied in the order they were pushed to the conditions of system number k
RECURSIVE apply_conditions(_, _, _, _)
apply_conditions(applicators, conds, k, i) ==
    IF i > Len(applicators) THEN conds
    ELSE apply_conditions(applicators,
                          insert_front(conds, condition_clone(applicators[i], k)),
                          k, i + 1)

\* From<ConditionSystemSet> for SystemSet
into_system_set ==
    /\ ~sset.built
    /\ csset.systems # <<>>
    /\ sset' = [built |-> TRUE,
                systems |-> [k \in 1..Len(csset.systems) |->
                               apply_conditions(csset.conditions, csset.systems[k], k, 1)]]
    /\ csset' = [csset EXCEPT !.systems = <<>>]
    /\ UNCHANGED <<locals, setObs, otherThanSet>>

\* ConditionalSystem::run_unsafe on a wrapper's conditions from index i on:
\* the instances evaluated, in order, and whether the main system runs
RECURSIVE eval_instances(_, _, _)
eval_instances(conds, out, i) ==
    IF i > Len(conds) THEN [log |-> <<>>, run |-> TRUE]
    ELSE IF ~out[conds[i][1]] THEN [log |-> <<conds[i]>>, run |-> FALSE]
    ELSE LET r == eval_instances(conds, out, i + 1)
         IN  [log |-> <<conds[i]>> \o r.log, run |-> r.run]

\* how many entries of the log are the instance inst
Times(log, inst) == Cardinality({i \in 1..Len(log) : log[i] = inst})

\* ConditionalSystem::run_unsafe of wrapper number k of the set; out is what
\* the predicates return in this invocation
wrapper_run(k, out) ==
    /\ sset.built
    /\ k \in 1..Len(sset.systems)
    /\ setObs.runs < MaxSetRuns
    /\ LET r == eval_instances(sset.systems[k], out, 1)
       IN  /\ locals' = [inst \in Insts |-> locals[inst] + Times(r.log, inst)]
           /\ setObs' = [setObs EXCEPT
                 !.runs = @ + 1,
                 !.invoked[k] = @ + 1,
                 !.evals[k] = [q \in AllPreds |->
                                 @[q] + Cardinality({i \in 1..Len(r.log) : r.log[i][1] = q})],
                 !.last[k] = [i \in 1..Len(r.log) |-> r.log[i][1]],
                 !.ran[k] = r.run,
                 !.out[k] = out]
    /\ UNCHANGED <<csset, sset, otherThanSet>>

-----------------------------------------------------------------------------
(* Data access and is_send of a ConditionalSystem *)

Components == {"c1", "c2"}

\* what a system declares to access, and what an archetype is made of
Accesses == {{}, {"c1"}, {"c2"}}
ArchetypeComps == {{"c1"}, {"c1", "c2"}}

\* a system (the main one or a predicate) that was not initialized: params are
\* the components its parameters ask for, component_access and
\* archetype_component_access are what it reports
System(params, send) ==
    [params |-> params, send |-> send, component_access |-> {},
     archetype_component_access |-> {}]

Systems == {System(a, snd) : a \in Accesses, snd \in BOOLEAN}

\* no ConditionalSystem is followed
NoAcc ==
    /\ csys = [exists |-> FALSE, initialized |-> FALSE, system |-> System({}, TRUE),
               conditions |-> <<>>, component_access |-> {},
               archetype_component_access |-> {}]
    /\ archetypes = <<>>
    /\ accObs = [calls |-> 0, component_access |-> {}, archetype_component_access |-> {}]

-----------------------------------------------------------------------------
(* Predicates on a resource *)

\* the values of the resource R
ResVals == {"x", "y"}

\* runs: invocations of the gated system; evals: evaluations of the predicate;
\* of the latest invocation: evaluated (the predicate was reached), now (R at
\* the evaluation), prev (R at the evaluation before it), fired (what the
\* predicate returned), sawR (an earlier evaluation found R), readded (R was
\* removed and inserted again since the evaluation before); fires and removals
\* count the true results and the removals of R; gone and back follow the
\* removals and insertions since the latest evaluation
NoRObs == [runs |-> 0, evals |-> 0, writes |-> 0, evaluated |-> FALSE,
           now |-> "none", prev |-> "none", fired |-> FALSE, sawR |-> FALSE,
           readded |-> FALSE, fires |-> 0, removals |-> 0, seen |-> FALSE,
           gone |-> FALSE, back |-> FALSE]

NoGObs == [done |-> FALSE, state |-> "-", res |-> NoRes, equals |-> FALSE,
           unless |-> FALSE, in_state |-> FALSE, not_in_state |-> FALSE]

\* no system is gated on a resource
NoGate ==
    /\ world_res = NoRes
    /\ existed = FALSE
    /\ robs = NoRObs
    /\ gobs = NoGObs

\* a world without R and a system built with
\* .run_if(p).run_if_resource_removed::<R>(); Local<bool> starts as false
InitGate == NoGate

\* a plausible slip: the closure does not clear its flag when it fires
resource_removed_sticky(ex, res) ==
    IF res.present THEN [existed |-> TRUE, out |-> FALSE]
    ELSE IF ex THEN [existed |-> TRUE, out |-> TRUE]
    ELSE [existed |-> ex, out |-> FALSE]

\* the closure of run_if_resource_removed: the flag afterwards and the result
resource_removed(ex, res) ==
    IF res.present THEN [existed |-> TRUE, out |-> FALSE]
    ELSE IF ex THEN [existed |-> FALSE, out |-> TRUE]
    ELSE [existed |-> ex, out |-> FALSE]

\* the closure of run_if_resource_equals(value)
run_if_resource_equals(res, value) ==
    IF res.present THEN res.val = value ELSE FALSE

\* a plausible slip: the 'unless' form is the 'if' form, negated
run_unless_negates(res, value) == ~run_if_resource_equals(res, value)

\* the closure of run_unless_resource_equals(value)
run_unless_resource_equals(res, value) ==
    IF res.present THEN res.val # value ELSE FALSE

\* run_in_state(state): run_if_resource_equals(CurrentState(state))
run_in_state(cs, state) == run_if_resource_equals(cs, Res(state).val)

\* run_not_in_state(state): run_unless_resource_equals(CurrentState(state))
run_not_in_state(cs, state) == run_unless_resource_equals(cs, Res(state).val)

Status(res) == IF res.present THEN "present" ELSE "absent"

\* user code inserts R, over one that is there or not
insert_res(v) ==
    /\ robs.writes < MaxResWrites
    /\ world_res' = insert_resource(world_res, v)
    /\ robs' = [robs EXCEPT !.writes = @ + 1,
                            !.back = @ \/ (robs.gone /\ ~world_res.present)]
    /\ UNCHANGED <<existed, gobs, otherThanRes>>

\* user code removes R
remove_res ==
    /\ robs.writes < MaxResWrites
    /\ world_res.present
    /\ world_res' = NoRes
    /\ robs' = [robs EXCEPT !.writes = @ + 1, !.removals = @ + 1, !.gone = TRUE]
    /\ UNCHANGED <<existed, gobs, otherThanRes>>

\* ConditionalSystem::run_unsafe of a system with the conditions p (which
\* returns first) and run_if_resource_removed, in this order: the closure
\* runs, and its Local changes, only when the loop reaches it
run_gated(first) ==
    /\ robs.runs < MaxResRuns
    /\ LET r == resource_removed(existed, world_res)
           out == [p \in PredIds |-> IF p = 1 THEN first ELSE r.out]
           reached == 2 \in Range(run_unsafe_result(<<1, 2>>, out).log)
       IN  IF reached
           THEN /\ existed' = r.existed
                /\ robs' = [robs EXCEPT !.runs = @ + 1, !.evals = @ + 1,
                                        !.evaluated = TRUE,
                                        !.now = Status(world_res),
                                        !.prev = robs.now,
                                        !.fired = r.out,
                                        !.sawR = robs.seen,
                                        !.seen = @ \/ world_res.present,
                                        !.readded = robs.back,
                                        !.fires = @ + (IF r.out THEN 1 ELSE 0),
                                        !.gone = FALSE, !.back = FALSE]
           ELSE /\ existed' = existed
                /\ robs' = [robs EXCEPT !.runs = @ + 1, !.evaluated = FALSE]
    /\ UNCHANGED <<world_res, gobs, otherThanRes>>

\* systems gated with run_if_resource_equals(CurrentState(state)),
\* run_unless_resource_equals(CurrentState(state)), run_in_state(state) and
\* run_not_in_state(state) are invoked, in a stage other than the driver
run_state_gates(state) ==
    /\ spc.at = "idle"
    /\ gobs' = [done |-> TRUE, state |-> state, res |-> current_state,
                equals |-> run_if_resource_equals(current_state, state),
                unless |-> run_unless_resource_equals(current_state, state),
                in_state |-> run_in_state(current_state, state),
                not_in_state |-> run_not_in_state(current_state, state)]
    /\ UNCHANGED <<world_res, existed, robs, otherThanRes>>

\* no conditional system was built
NoCond == InitCond /\ NoSet /\ NoAcc /\ NoGate

\* ConditionalSystemDescriptor::into_descriptor: a ConditionalSystem with empty
\* access sets, made of a main system and up to MaxAccConds predicates
InitAcc ==
    /\ \E sys \in Systems, n \in 0..MaxAccConds : \E conds \in [1..n -> Systems] :
          csys = [exists |-> TRUE, initialized |-> FALSE, system |-> sys,
                  conditions |-> conds, component_access |-> {},
                  archetype_component_access |-> {}]
    /\ archetypes = <<>>
    /\ accObs = [calls |-> 0, component_access |-> {}, archetype_component_access |-> {}]

\* a plausible slip: the aggregate is assigned, not extended
assign(access, other) == other

\* Access::extend
extend(access, other) == access \cup other

\* System::initialize of a part: its component_access is what its params ask for
initialize_part(sys) == [sys EXCEPT !.component_access = sys.params]

\* System::update_archetype_component_access of a part in a world with the
\* archetypes archs: the components it accesses in each archetype
update_part(sys, archs) ==
    [sys EXCEPT !.archetype_component_access =
        @ \cup {ac \in (1..Len(archs)) \X Components :
                   ac[2] \in sys.component_access /\ ac[2] \in archs[ac[1]]}]

\* the access set named field of the parts from condition i on, then of the
\* main system, extended one after the other into access
RECURSIVE extend_all(_, _, _, _, _)
extend_all(access, conds, sys, field, i) ==
    IF i > Len(conds) THEN extend(access, sys[field])
    ELSE extend_all(extend(access, conds[i][field]), conds, sys, field, i + 1)

\* ConditionalSystem::initialize
initialize ==
    /\ csys.exists
    /\ accObs.calls < MaxAccCalls
    /\ LET conds == [i \in 1..Len(csys.conditions) |-> initialize_part(csys.conditions[i])]
           sys == initialize_part(csys.system)
       IN  csys' = [csys EXCEPT
                      !.initialized = TRUE,
                      !.conditions = conds,
                      !.system = sys,
                      !.component_access =
                          extend_all(@, conds, sys, "component_access", 1)]
    /\ accObs' = [calls |-> accObs.calls + 1,
                  component_access |-> csys.component_access,
                  archetype_component_access |-> csys.archetype_component_access]
    /\ UNCHANGED <<archetypes, otherThanAcc>>

\* the world gets a new archetype
new_archetype(comps) ==
    /\ csys.exists
    /\ Len(archetypes) < MaxArchetypes
    /\ archetypes' = Append(archetypes, comps)
    /\ UNCHANGED <<csys, accObs, otherThanAcc>>

\* ConditionalSystem::update_archetype_component_access, which the executor
\* calls on initialized systems
update_archetype_component_access ==
    /\ csys.exists /\ csys.initialized
    /\ accObs.calls < MaxAccCalls
    /\ LET conds == [i \in 1..Len(csys.conditions) |->
                        update_part(csys.conditions[i], archetypes)]
           sys == update_part(csys.system, archetypes)
       IN  csys' = [csys EXCEPT
                      !.conditions = conds,
                      !.system = sys,
                      !.archetype_component_access =
                          extend_all(@, conds, sys, "archetype_component_access", 1)]
    /\ accObs' = [calls |-> accObs.calls + 1,
                  component_access |-> csys.component_access,
                  archetype_component_access |-> csys.archetype_component_access]
    /\ UNCHANGED <<archetypes, otherThanAcc>>

\* a plausible slip: only the main system is asked
is_send_main(cs) == cs.system.send

\* ConditionalSystem::is_send
is_send(cs) ==
    LET conditions_are_send == \A i \in 1..Len(cs.conditions) : cs.conditions[i].send
    IN  cs.system.send /\ conditions_are_send

-----------------------------------------------------------------------------
(* Specifications *)

NextAcc == \/ initialize
           \/ \E comps \in ArchetypeComps : new_archetype(comps)
           \/ update_archetype_component_access

\* the data access of a conditional system alone
InitAccAlone == InitCond /\ NoSet /\ InitAcc /\ NoGate /\ NoFts /\ NoState
SpecAcc == InitAccAlone /\ [][NextAcc]_vars

NextSet == \/ \E q \in SetPreds : cs_run_if(q)
           \/ \E own \in OwnConds : with_system(own)
           \/ into_system_set
           \/ \E k \in 1..MaxSystems, out \in Outs : wrapper_run(k, out)

\* a condition set alone
InitSetAlone == InitCond /\ InitSet /\ NoAcc /\ NoGate /\ NoFts /\ NoState
SpecSet == InitSetAlone /\ [][NextSet]_vars

NextCond == \/ \E p \in PredIds : run_if(p)
            \/ into_descriptor
            \/ run_unsafe

\* no user code touches the registry
NextFts == \/ \E l \in Labels, c \in ChildIds : add_stage(l, c)
           \/ \E l \in Labels, t \in Deltas \cup {NoTime} : run_begin(l, t, MaxTicks)
           \/ pass_begin
           \/ child_run(NoWrite)
           \/ run_end

\* run: the first MaxPasses passes of a tick (with step = 0 the loop has no end)
pass_begin_capped ==
    /\ pc.n_steps < MaxPasses
    /\ pass_begin

\* a stage whose step may be zero
NextFtsZero == \/ \E l \in Labels, c \in ChildIds : add_stage(l, c)
               \/ \E l \in Labels, w \in ZeroWrites : outside_write(l, w)
               \/ \E l \in Labels, t \in Deltas \cup {NoTime} :
                     run_begin(l, t, MaxCtlTicks)
               \/ pass_begin_capped
               \/ child_run(NoWrite)
               \/ run_end

\* two stages, their registry entries left alone
NextFtsTwo == \/ \E l \in Labels, c \in ChildIds : add_stage(l, c)
              \/ \E l \in Labels, t \in Deltas \cup {NoTime} :
                    run_begin(l, t, MaxTwoTicks)
              \/ pass_begin
              \/ child_run(NoWrite)
              \/ run_end

\* a stage with a rate lock, its registry entry left alone
NextFtsLock == \/ \E l \in Labels, c \in ChildIds : add_stage(l, c)
               \/ \E l \in Labels, rl \in RateLocks : set_rate_lock(l, rl)
               \/ \E l \in Labels, t \in LockDeltas \cup {NoTime} :
                     run_begin(l, t, MaxLockTicks)
               \/ pass_begin
               \/ child_run(NoWrite)
               \/ run_end

\* user code, in the children and outside the stage, writes into the registry
NextFtsCtl == \/ \E l \in Labels, c \in ChildIds : add_stage(l, c)
              \/ \E l \in Labels, w \in Writes : outside_write(l, w)
              \/ \E l \in Labels, t \in Deltas \cup {NoTime} : run_begin(l, t, MaxCtlTicks)
              \/ pass_begin
              \/ \E w \in Writes \cup {NoWrite} : child_run(w)
              \/ run_end

NextState == \/ \E v \in T : insert_next(v)
             \/ \E v \in T : mutate_current(v)
             \/ run_driver
             \/ loop_head
             \/ \E e \in Effects : init_enter_run(e)
             \/ take_next
             \/ \E e \in Effects : exit_run(e)
             \/ set_current
             \/ \E e \in Effects : enter_run(e)

\* a conditional system alone
InitCondAlone == InitCond /\ NoSet /\ NoAcc /\ NoGate /\ NoFts /\ NoState
SpecCond == InitCondAlone /\ [][NextCond]_vars

\* a fixed timestep stage alone, its registry entry left alone
InitFtsAlone == NoCond /\ InitFts /\ NoState
SpecFts == InitFtsAlone /\ [][NextFts]_vars

\* a fixed timestep stage with a rate lock alone
InitFtsLock == NoCond /\ InitFts /\ NoState
SpecFtsLock == InitFtsLock /\ [][NextFtsLock]_vars

\* a fixed timestep stage alone, built with or given a step that may be zero
InitFtsZero == NoCond /\ InitFtsAny /\ NoState
SpecFtsZero == InitFtsZero /\ [][NextFtsZero]_vars

\* two fixed timestep stages
InitFtsTwo == NoCond /\ InitFtsBoth /\ NoState
SpecFtsTwo == InitFtsTwo /\ [][NextFtsTwo]_vars

\* a fixed timestep stage alone, controlled through its registry entry
InitFtsCtl == NoCond /\ InitFts /\ NoState
SpecFtsCtl == InitFtsCtl /\ [][NextFtsCtl]_vars

\* a stage with a rate lock and deltas that take a locked stage (accumulator
\* 50) out of the deviation on both sides: 10 gives r = 0.6, 210 gives r = 2.6
ExitDeltas == {10, 120, 210}
NextFtsExit == \/ \E l \in Labels, c \in ChildIds : add_stage(l, c)
               \/ \E l \in Labels, rl \in RateLocks : set_rate_lock(l, rl)
               \/ \E l \in Labels, t \in ExitDeltas \cup {NoTime} :
                     run_begin(l, t, MaxLockTicks)
               \/ pass_begin
               \/ child_run(NoWrite)
               \/ run_end

InitFtsExit == NoCond /\ InitFts /\ NoState
SpecFtsExit == InitFtsExit /\ [][NextFtsExit]_vars

\* what a child writes when it neither raises the accumulator nor lowers the
\* step: it empties the accumulator, or pauses the timestep
TermWrites == {[field |-> "accumulator", val |-> 0], [field |-> "paused", val |-> 1]}
NextFtsTerm == \/ \E l \in Labels, c \in ChildIds : add_stage(l, c)
               \/ \E l \in Labels, rl \in RateLocks : set_rate_lock(l, rl)
               \/ \E l \in Labels, t \in Deltas \cup {NoTime} :
                     run_begin(l, t, MaxCtlTicks)
               \/ pass_begin
               \/ \E w \in TermWrites \cup {NoWrite} : child_run(w)
               \/ run_end

\* once run is invoked it goes on: the loop test, the children and the end of
\* run are steps of one call
InitFtsTerm == NoCond /\ InitFts /\ NoState
SpecFtsTerm ==
    /\ InitFtsTerm /\ [][NextFtsTerm]_vars
    /\ WF_vars(pass_begin)
    /\ WF_vars(\E w \in TermWrites \cup {NoWrite} : child_run(w))
    /\ WF_vars(run_end)

\* a stage built in any of the three ways; code outside the stage pauses and
\* unpauses it through the registry entry, when there is one
PauseWrites == [field : {"paused"}, val : {0, 1}]
NextFtsBuilt == \/ \E l \in Labels, c \in ChildIds : add_stage(l, c)
                \/ \E l \in Labels, w \in PauseWrites : outside_write(l, w)
                \/ \E l \in Labels, t \in Deltas \cup {NoTime} :
                      run_begin(l, t, MaxCtlTicks)
                \/ pass_begin
                \/ child_run(NoWrite)
                \/ run_end

InitFtsBuiltAlone == NoCond /\ InitFtsBuilt /\ NoState
SpecFtsBuilt == InitFtsBuiltAlone /\ [][NextFtsBuilt]_vars

\* code outside the stage writes the accumulator of the registry entry
AccumulatorWrites == [field : {"accumulator"}, val : AccWrites]
NextFtsOut == \/ \E l \in Labels, c \in ChildIds : add_stage(l, c)
              \/ \E l \in Labels, w \in AccumulatorWrites : outside_write(l, w)
              \/ \E l \in Labels, t \in Deltas \cup {NoTime} : run_begin(l, t, MaxCtlTicks)
              \/ pass_begin
              \/ child_run(NoWrite)
              \/ run_end

InitFtsOut == NoCond /\ InitFts /\ NoState
SpecFtsOut == InitFtsOut /\ [][NextFtsOut]_vars

\* a state driver alone
InitStateAlone == NoCond /\ NoFts /\ InitState
SpecState == InitStateAlone /\ [][NextState]_vars

\* user code writes NextState, outside the driver (one of PureAsks) and in the
\* stages (any state), and leaves CurrentState to the driver
PureAsks == {"B", "C"}
NextStatePure == \/ \E v \in PureAsks : insert_next(v)
                 \/ run_driver
                 \/ loop_head
                 \/ \E e \in Effects : init_enter_run(e)
                 \/ take_next
                 \/ \E e \in Effects : exit_run(e)
                 \/ set_current
                 \/ \E e \in Effects : enter_run(e)

InitStatePure == NoCond /\ NoFts /\ InitState
SpecStatePure == InitStatePure /\ [][NextStatePure]_vars

\* the same, and an invocation of run, once begun, goes on: the steps of run
\* are steps of one call
SpecStateFair ==
    /\ InitStatePure /\ [][NextStatePure]_vars
    /\ WF_vars(loop_head)
    /\ WF_vars(\E e \in Effects : init_enter_run(e))
    /\ WF_vars(take_next)
    /\ WF_vars(\E e \in Effects : exit_run(e))
    /\ WF_vars(set_current)
    /\ WF_vars(\E e \in Effects : enter_run(e))

\* user code outside the driver writes NextState once or several times between
\* two invocations; the enter and exit stages write none
NextStateOver == \/ \E v \in T : insert_first(v)
                 \/ \E v \in T : overwrite_next(v)
                 \/ run_driver
                 \/ loop_head
                 \/ init_enter_run("-")
                 \/ take_next
                 \/ exit_run("-")
                 \/ set_current
                 \/ enter_run("-")

InitStateOver == NoCond /\ NoFts /\ InitState
SpecStateOver == InitStateOver /\ [][NextStateOver]_vars

\* user code, outside the driver and in its enter stages, removes CurrentState;
\* the states asked for from outside, and what the enter stage of the default
\* state does to NextState
GoneAsks == {"A", "B"}
GoneEffects == {"-", "B"}
NextStateGone == \/ \E v \in GoneAsks : insert_next(v)
                 \/ remove_current
                 \/ run_driver
                 \/ loop_head
                 \/ \E e \in GoneEffects : init_enter_run(e)
                 \/ init_enter_removes
                 \/ take_next
                 \/ exit_run("-")
                 \/ set_current
                 \/ enter_run("-")
                 \/ enter_removes

InitStateGone == NoCond /\ NoFts /\ InitState
SpecStateGone == InitStateGone /\ [][NextStateGone]_vars

\* a system gated on the removal of a resource that user code inserts and
\* removes; an earlier predicate of the system returns what it likes
NextGate == \/ \E v \in ResVals : insert_res(v)
            \/ remove_res
            \/ \E first \in BOOLEAN : run_gated(first)

InitGateAlone == InitCond /\ NoSet /\ NoAcc /\ InitGate /\ NoFts /\ NoState
SpecGate == InitGateAlone /\ [][NextGate]_vars

\* a state driver, and systems gated on CurrentState that run between its
\* invocations
NextStateGate == \/ \E v \in T : insert_first(v)
                 \/ run_driver
                 \/ loop_head
                 \/ init_enter_run("-")
                 \/ take_next
                 \/ exit_run("-")
                 \/ set_current
                 \/ enter_run("-")
                 \/ \E s \in T : run_state_gates(s)

InitStateGate == NoCond /\ NoFts /\ InitState
SpecStateGate == InitStateGate /\ [][NextStateGate]_vars

Init == InitCond /\ InitSet /\ InitAcc /\ InitGate /\ InitFts /\ InitState
Next == NextCond \/ NextSet \/ NextAcc \/ NextGate \/ NextFtsCtl \/ NextFtsLock \/ NextState
\* the three together in one world
Spec == Init /\ [][Next]_vars

-----------------------------------------------------------------------------
(* Claims about conditional systems, under SpecCond *)

\* C1: in every invocation of the wrapper the main system runs exactly once if
\* every predicate returns true and not at all otherwise: the latest invocation
\* ran it iff all predicates returned true, and the number of its runs is the
\* number of invocations in which all predicates returned true.
C1_RunsIffAllTrue ==
    /\ counterC = CountTrue(gateLog)
    /\ gateLog # <<>> => (sysRan <=> gateLog[Len(gateLog)])
    /\ gateLog # <<>> => (sysRan <=> \A p \in Range(insertLog) : lastOut[p])

\* one predicate that is true on ticks 0, 2, 4 only: 3 runs after 5 ticks
C1_Witness ==
    /\ Len(insertLog) = 1
    /\ gateLog = <<TRUE, FALSE, TRUE, FALSE, TRUE>>
    /\ counterC = 3

\* the smallest position of insertLog whose predicate returns false, 0 if none
FirstFalse ==
    LET F == {i \in 1..Len(insertLog) : ~lastOut[insertLog[i]]}
    IN  IF F = {} THEN 0 ELSE CHOOSE i \in F : \A j \in F : i <= j

\* C2: in every invocation the predicates are evaluated in insertion order, each
\* at most once; if k is the smallest index whose predicate returns false,
\* exactly P0..Pk are evaluated and neither a later one nor the main system runs.
C2_InOrderShortCircuit ==
    gateLog # <<>> =>
        /\ Len(evalLog) <= Len(insertLog)
        /\ \A i \in 1..Len(evalLog) : evalLog[i] = insertLog[i]
        /\ FirstFalse # 0 => (Len(evalLog) = FirstFalse /\ ~sysRan)

\* three predicates added in the order 3, 1, 2; the second one returns false
C2_Witness ==
    /\ insertLog = <<3, 1, 2>>
    /\ gateLog # <<>>
    /\ lastOut = [p \in PredIds |-> p # 1]
    /\ evalLog = <<3, 1>>
    /\ ~sysRan

-----------------------------------------------------------------------------
(* Claims about the fixed timestep stage *)

L == "L1"

RECURSIVE Repeat(_, _)
Repeat(s, n) == IF n = 0 THEN <<>> ELSE s \o Repeat(s, n - 1)

\* a tick of L has ended (it was not skipped) and control is back with the host
TickEnded == pc.at = "idle" /\ obs[L].kind = "ran"

\* C3 (SpecFts: no rate lock, never paused, nobody writes to the registry): after
\* any sequence of ticks with total delta D, the passes N and the accumulator
\* satisfy N * step + accumulator = D and 0 <= accumulator < step, so
\* N = floor(D / step).  Ticks without Time give no delta.
C3_CatchUp ==
    pc.at = "idle" =>
        /\ obs[L].N * stage[L].step + stage[L].accumulator = obs[L].D
        /\ 0 <= stage[L].accumulator
        /\ stage[L].accumulator < stage[L].step
        /\ obs[L].N = obs[L].D \div stage[L].step

\* step 100 ms, six ticks, 240 ms in all: two passes, 40 ms left
C3_Witness ==
    /\ TickEnded
    /\ obs[L].runs = 6 /\ obs[L].D = 240 /\ obs[L].delta = 40
    /\ stage[L].step = 100
    /\ obs[L].N = 2
    /\ stage[L].accumulator = 40

\* C4 (SpecFtsCtl): at the end of every tick that was not skipped, when the
\* stage is not in locked mode, its own fields satisfy 0 <= accumulator < step,
\* also when children changed step or accumulator through the registry.
C4_AccumulatorBelowStep ==
    (TickEnded /\ lock_lt(stage[L])) =>
        /\ 0 <= stage[L].accumulator
        /\ stage[L].accumulator < stage[L].step

\* a child raised the accumulator to 150 ms in the tick's first pass
C4_Witness ==
    /\ TickEnded
    /\ writeLog.first.by = "child" /\ writeLog.first.field = "accumulator"
    /\ writeLog.first.val = 150 /\ writeLog.first.run = obs[L].runs
    /\ obs[L].lastN >= 2
    /\ stage[L].accumulator < stage[L].step

\* C5: current names a timestep only while a child stage of that timestep is
\* running: whenever control is outside run, current is empty and get_current()
\* returns None.
C5_CurrentOnlyInsideStage ==
    pc.at = "idle" => (timesteps.current = None /\ ~get_current(timesteps).present)

\* C6 (SpecFtsCtl): while the registry entry says paused, a tick runs no child
\* and leaves the stage's accumulator as it was; a tick that is not skipped
\* starts from the accumulator it found, which is the one preserved over the pause.
C6_PausePreservesAccumulator ==
    /\ obs[L].pausedAt =>
          /\ pc.at = "idle"
          /\ obs[L].kind = "paused"
          /\ obs[L].trace = <<>>
          /\ stage[L].accumulator = obs[L].accBefore
    /\ (pc.at = "while" /\ pc.n_steps = 0 /\ lock_lt(stage[L])) =>
          stage[L].accumulator = obs[L].accBefore + obs[L].delta

\* a tick left 40 ms, the entry was paused from outside, a tick was skipped, the
\* entry was unpaused, and the next tick starts at 40 + 40 ms
C6_Witness ==
    /\ writeLog.first.by = "outside" /\ writeLog.first.field = "paused"
    /\ writeLog.first.val = 1
    /\ obs[L].prev = "paused" /\ obs[L].kind = "running"
    /\ pc.at = "while" /\ pc.n_steps = 0
    /\ obs[L].accBefore = 40 /\ obs[L].delta = 40
    /\ stage[L].accumulator = 80

\* a child of the pass has returned
AfterChild == \/ pc.at = "child" /\ pc.child > 1
              \/ pc.at = "while" /\ pc.n_steps > 0 /\ stage[L].stages # <<>>

\* the only write so far: the first child set step to 50 ms on its first run
StepHalved ==
    /\ writeLog.n = 1
    /\ writeLog.first = [by |-> "child", l |-> L, run |-> 1, pass |-> 1, child |-> 1,
                         field |-> "step", val |-> 50]
    /\ Len(stage[L].stages) = 1

\* C7 (SpecFtsCtl): when a child changes the step in the registry entry, the stage
\* has that step as soon as the child has returned, and the loop condition of
\* the same tick and of later ticks uses it: step 100 ms, the child sets 50 ms on
\* its first run, deltas 120 and 40 ms: one pass and 20 ms left, then one pass
\* and 10 ms left.
C7_StepAdopted ==
    /\ AfterChild => stage[L].step = timesteps.info[L].step
    /\ (StepHalved /\ AfterChild) => stage[L].step = 50
    /\ (StepHalved /\ TickEnded /\ obs[L].runs = 1 /\ obs[L].delta = 120) =>
          (obs[L].lastN = 1 /\ stage[L].accumulator = 20 /\ stage[L].step = 50)
    /\ (StepHalved /\ TickEnded /\ obs[L].runs = 2 /\ obs[L].D = 160 /\ obs[L].delta = 40) =>
          (obs[L].lastN = 1 /\ obs[L].N = 2 /\ stage[L].accumulator = 10
           /\ stage[L].step = 50)

C7_Witness ==
    /\ StepHalved /\ TickEnded
    /\ obs[L].runs = 2 /\ obs[L].D = 160 /\ obs[L].delta = 40
    /\ obs[L].lastN = 1 /\ obs[L].N = 2
    /\ stage[L].accumulator = 10

\* C8 (SpecFtsCtl): in every pass all children run once each in the order they
\* were added, and a pass is completed before the next begins, whatever the
\* children write: a tick with m passes runs (c0 .. ck-1) m times.
C8_ChildrenInOrder ==
    /\ pc.at = "child" =>
          obs[L].trace = Repeat(obs[L].added, pc.n_steps)
                         \o SubSeq(obs[L].added, 1, pc.child - 1)
    /\ pc.at = "while" => obs[L].trace = Repeat(obs[L].added, pc.n_steps)
    /\ TickEnded => obs[L].trace = Repeat(obs[L].added, obs[L].lastN)

\* two children, the first one pauses the timestep in the first pass, and the
\* tick still runs two full passes
C8_Witness ==
    /\ TickEnded
    /\ obs[L].added = <<1, 2>>
    /\ writeLog.first.by = "child" /\ writeLog.first.field = "paused"
    /\ writeLog.first.val = 1 /\ writeLog.first.child = 1
    /\ writeLog.first.pass = 1 /\ writeLog.first.run = obs[L].runs
    /\ obs[L].lastN = 2
    /\ obs[L].trace = <<1, 2, 1, 2>>

-----------------------------------------------------------------------------
(* Claims about the state driver *)

\* an entry of trace
Ev(ev, s, cur, w) == [ev |-> ev, s |-> s, cur |-> cur, w |-> w]

\* the entry without what the stage wrote
Plain(e) == [e EXCEPT !.w = "-"]

\* what follows the removal of NextState(B) when CurrentState is A
Transition(A, B) ==
    (IF A \in driver.exit_stages THEN <<Ev("exit", A, A, "-")>> ELSE <<>>)
    \o <<Ev("set", B, B, "-")>>
    \o (IF B \in driver.enter_stages THEN <<Ev("enter", B, B, "-")>> ELSE <<>>)

\* C9 (SpecState): a transition A -> B goes in this order: NextState is removed,
\* the exit stage of A runs while CurrentState is A, CurrentState becomes B, the
\* enter stage of B runs while CurrentState is B.
C9_TransitionOrder ==
    /\ spc.at = "exit" =>
          /\ ~next_state.present
          /\ current_state = Res(spc.current)
          /\ trace[Len(trace)].ev = "take"
    /\ spc.at = "enter" => current_state = Res(spc.next)
    /\ \A i \in 1..Len(trace) :
          trace[i].ev = "take" =>
             LET want == Transition(trace[i].cur, trace[i].s)
                 have == Len(trace) - i
             IN  /\ \A j \in 1..Len(want) : j <= have => Plain(trace[i + j]) = want[j]
                 /\ spc.at \in {"idle", "head", "take"} => have >= Len(want)

\* A -> B with both stages registered
C9_Witness ==
    /\ spc.at = "idle"
    /\ "A" \in driver.exit_stages /\ "B" \in driver.enter_stages
    /\ current_state = Res("B")
    /\ trace = <<Ev("take", "B", "A", "-"), Ev("exit", "A", "A", "-"),
                 Ev("set", "B", "B", "-"), Ev("enter", "B", "B", "-")>>

\* the entries of the trace with the given ev
Count(ev) == Cardinality({i \in 1..Len(trace) : trace[i].ev = ev})

\* the NextState a stage wrote at entry i is the one removed next, unless a
\* later stage replaced it first
FollowedUp(i) ==
    \E j \in (i + 1)..Len(trace) :
       /\ trace[j].ev = "take"
       /\ \A k \in (i + 1)..(j - 1) : trace[k].ev # "take"
       /\ \/ trace[j].s = trace[i].w
          \/ \E k \in (i + 1)..(j - 1) : trace[k].w = trace[j].s

\* C10 (SpecState): when no enter or exit stage writes NextState, an invocation
\* of the driver makes at most one transition; when one does, the driver makes
\* the transition it asks for in the same invocation, and goes on until none is
\* pending.
C10_Cascade ==
    /\ sobs.inner = 0 => sobs.trans <= 1
    /\ sobs.trans <= 1 + sobs.inner
    /\ spc.at = "idle" =>
          /\ Count("take") = sobs.trans
          /\ Count("set") = sobs.trans
          /\ \A i \in 1..Len(trace) : trace[i].w # "-" => FollowedUp(i)

\* NextState(B) from outside in state A, and enter(B) inserts NextState(C)
C10_Witness ==
    /\ spc.at = "idle"
    /\ sobs.trans = 2
    /\ trace = <<Ev("take", "B", "A", "-"), Ev("exit", "A", "A", "-"),
                 Ev("set", "B", "B", "-"), Ev("enter", "B", "B", "C"),
                 Ev("take", "C", "B", "-"), Ev("exit", "B", "B", "-"),
                 Ev("set", "C", "C", "-"), Ev("enter", "C", "C", "-")>>

\* the entries of the trace where an enter or exit stage ran
StageRuns == {i \in 1..Len(trace) : trace[i].ev \in {"enter", "exit"}}

\* the entries of the trace where the driver seeded CurrentState
Seeds == {i \in 1..Len(trace) : trace[i].ev = "init"}

PlainPrefix(n) == [i \in 1..n |-> Plain(trace[i])]

\* the latest invocation found NextState(A) while CurrentState was A
ReEnter == sobs.asked # "-" /\ sobs.asked = sobs.was

NothingAsked == sobs.runs > 0 /\ sobs.was # "-" /\ sobs.asked = "-"

\* C13 (SpecState): a change of CurrentState made directly by user code makes
\* the driver run no exit and no enter stage: an invocation that finds
\* CurrentState present and NextState absent runs no stage and leaves
\* CurrentState as it is, whatever its value.
C13_DirectMutationBypasses ==
    NothingAsked =>
        /\ trace = <<>>
        /\ sobs.trans = 0
        /\ spc.at \in {"idle", "head", "take"}
        /\ spc.at # "idle" => current_state = Res(sobs.was)

\* CurrentState was changed from A to C by user code, then the driver was
\* invoked with exit(A) and enter(C) registered
C13_Witness ==
    /\ spc.at = "idle"
    /\ sobs.runs = 2 /\ sobs.direct = 1 /\ sobs.outer = 0 /\ sobs.innerTotal = 0
    /\ driver.exit_stages = T /\ driver.enter_stages = T
    /\ sobs.was = "C" /\ sobs.asked = "-"
    /\ current_state = Res("C")
    /\ trace = <<>>

\* C14: after the driver's first invocation both CurrentState and NextState
\* exist as resources holding values of T wherever user systems outside the
\* driver run.
C14_BothResourcesExist ==
    (spc.at = "idle" /\ sobs.runs >= 1) =>
        /\ current_state.present /\ current_state.val \in T
        /\ next_state.present /\ next_state.val \in T

\* no NextState was written from outside since the latest invocation began
NoNewWrite == sobs.outer = sobs.outerAt

-----------------------------------------------------------------------------
(* Claims about the rate lock *)

\* the stage of L has a rate lock (n_frames, exit_deviation)
HasRateLock == ~stage[L].rate_lock.max

\* the latest tick of L began in locked mode
BeganLocked == HasRateLock /\ obs[L].lockBefore >= stage[L].rate_lock.n

\* |r - 1.5| < exit_deviation for r = (accumulator + delta) / step of the latest tick
InBand ==
    LET d == 2 * (obs[L].accBefore + obs[L].delta) - 3 * stage[L].step
        a == IF d < 0 THEN 0 - d ELSE d
    IN  a * stage[L].rate_lock.den < 2 * stage[L].rate_lock.num * stage[L].step

\* C16 (SpecFtsLock: children leave the registry alone): once the stage is in
\* locked mode, every tick whose overstep ratio is within exit_deviation of 1.5
\* runs exactly one pass and ends with accumulator = step / 2 and the stage
\* still locked, whatever the delta of the tick.
C16_LockedOnePass ==
    (TickEnded /\ BeganLocked /\ InBand) =>
        /\ obs[L].lastN = 1
        /\ stage[L].accumulator = stage[L].step \div 2
        /\ stage[L].lock_accum >= stage[L].rate_lock.n

\* two locked ticks in a row, the latest with a delta of 40 ms, less than a step
C16_Witness ==
    /\ TickEnded /\ BeganLocked /\ InBand
    /\ stage[L].rate_lock.n = 2
    /\ obs[L].accBefore = 50 /\ obs[L].delta = 40
    /\ obs[L].streak >= 4
    /\ obs[L].lastN = 1
    /\ stage[L].accumulator = 50

-----------------------------------------------------------------------------
(* Claims about failures of the fixed timestep stage *)

\* C18: a zero step is detected at construction or on access, so that step > 0
\* holds in every reachable state of the stage and of its registry entry, and
\* no tick runs the catch-up loop with step = 0.
C18_StepPositive ==
    /\ stage[L].exists => stage[L].step > 0
    /\ (timesteps.exists /\ timesteps.info[L].present) => timesteps.info[L].step > 0
    /\ pc.at \in {"while", "child"} => stage[L].step > 0

\* the latest tick of L found the stage not paused and no Time in the world
NoTimeTick == obs[L].runs > 0 /\ obs[L].delta = NoTime /\ obs[L].kind # "paused"

\* C19 (SpecFtsLock): when Time is absent at the tick of a stage that is not
\* paused, the tick is skipped silently: no child runs, and the stage's
\* accumulator and lock_accum, the registry entry and the registry's current
\* stay as they were.
C19_NoTimeSkips ==
    NoTimeTick =>
        /\ pc.at = "idle"
        /\ obs[L].kind = "notime"
        /\ obs[L].trace = <<>>
        /\ stage[L].accumulator = obs[L].accBefore
        /\ stage[L].lock_accum = obs[L].lockBefore
        /\ ~obs[L].stored

\* a locked stage, its entry in the registry and current empty after a tick
\* with a pass, is ticked without Time
C19_Witness ==
    /\ NoTimeTick
    /\ pc.at = "idle"
    /\ timesteps.exists /\ timesteps.info[L].present /\ timesteps.current = None
    /\ HasRateLock /\ obs[L].lockBefore = 2
    /\ obs[L].accBefore = 50
    /\ stage[L].accumulator = 50 /\ stage[L].lock_accum = 2
    /\ stage[L].stages # <<>>

\* C20 (SpecFtsTwo): get_single and get_single_mut give an entry iff the
\* registry holds exactly one timestep, and None for none or several; single
\* and single_mut panic exactly when it does not hold exactly one; current and
\* current_mut panic exactly when get_current gives None.
C20_Lookups ==
    timesteps.exists =>
        LET one == \E l \in Labels : Entries(timesteps) = {l} IN
        /\ get_single(timesteps).present <=> one
        /\ get_single_mut(timesteps).present <=> one
        /\ \A l \in Labels : Entries(timesteps) = {l} =>
              /\ get_single(timesteps) = timesteps.info[l]
              /\ get_single_mut(timesteps) = timesteps.info[l]
              /\ single(timesteps).info = timesteps.info[l]
              /\ single_mut(timesteps).info = timesteps.info[l]
        /\ single(timesteps).panics <=> ~one
        /\ single_mut(timesteps).panics <=> ~one
        /\ current_expect(timesteps).panics <=> ~get_current(timesteps).present
        /\ current_mut(timesteps).panics <=> ~get_current(timesteps).present

\* two timesteps in the registry, looked up during a pass of the second
C20_Witness ==
    /\ Entries(timesteps) = {"L1", "L2"}
    /\ pc.at = "child" /\ pc.l = "L2"
    /\ ~get_single(timesteps).present
    /\ single(timesteps).panics
    /\ ~current_expect(timesteps).panics
    /\ current_expect(timesteps).info = timesteps.info["L2"]

-----------------------------------------------------------------------------
(* Claims about condition sets *)

\* the wrappers of the converted set
Wrappers == 1..Len(sset.systems)

\* the places in wrapper k that hold an instance of the predicate q
Places(k, q) == {i \in 1..Len(sset.systems[k]) : sset.systems[k][i][1] = q}

\* the predicates of wrapper k, in the order it evaluates them
Names(k) == [i \in 1..Len(sset.systems[k]) |-> sset.systems[k][i][1]]

\* C21 (SpecSet): converting a ConditionSet with predicates q1..qm and systems
\* s1..sk gives k wrappers, each gated by all m set predicates besides the
\* system's own, and each wrapper has an instance of its own of every set
\* predicate: a set predicate is evaluated for each system separately and its
\* local state is not shared between systems.
C21_EveryPredicateEverySystem ==
    sset.built =>
        /\ Len(sset.systems) = Len(setObs.own)
        /\ \A k \in Wrappers :
              /\ \A q \in Range(csset.conditions) :
                    /\ Cardinality(Places(k, q)) = 1
                    /\ \A i \in Places(k, q) :
                          /\ \A j \in Wrappers \ {k} :
                                sset.systems[k][i] \notin Range(sset.systems[j])
                          /\ locals[sset.systems[k][i]] = setObs.evals[k][q]
              /\ setObs.invoked[k] > 0 =>
                    (setObs.ran[k] <=>
                        \A q \in Range(csset.conditions) \cup Range(setObs.own[k]) :
                            setObs.out[k][q])

\* two set predicates, two systems; the first wrapper was stopped by q1, the
\* second one ran: q1 counted once for each
C21_Witness ==
    /\ sset.built
    /\ Len(csset.conditions) = 2 /\ Len(sset.systems) = 2
    /\ setObs.invoked = [k \in 1..MaxSystems |-> 1]
    /\ ~setObs.out[1]["q1"] /\ ~setObs.ran[1]
    /\ setObs.ran[2]
    /\ \A k \in Wrappers : \A i \in Places(k, "q1") : locals[sset.systems[k][i]] = 1

\* the sequence s from its last element to its first
Reverse(s) == [i \in 1..Len(s) |-> s[Len(s) + 1 - i]]

\* C22 (SpecSet): in every wrapper made from a ConditionSet whose predicates
\* were added in the order q1..qm, the set's predicates are evaluated in the
\* reverse order (qm first), all of them before the system's own predicates
\* p1..pn, which keep their order: qm..q1, p1..pn, for every system of the set.
C22_SetPredicatesReversedFirst ==
    sset.built =>
        \A k \in Wrappers :
            LET order == Reverse(csset.conditions) \o setObs.own[k]
                done == setObs.last[k]
            IN  /\ Names(k) = order
                /\ Len(done) <= Len(order)
                /\ done = SubSeq(order, 1, Len(done))
                /\ (setObs.invoked[k] > 0 /\ \A q \in AllPreds : setObs.out[k][q]) =>
                      done = order

\* q1 then q2 added to the set; both wrappers evaluated q2, q1 and then their own
C22_Witness ==
    /\ sset.built
    /\ csset.conditions = <<"q1", "q2">>
    /\ setObs.own = <<(<<"p1", "p2">>), (<<"p1">>)>>
    /\ setObs.last[1] = <<"q2", "q1", "p1", "p2">>
    /\ setObs.last[2] = <<"q2", "q1", "p1">>



\* the main system and the predicates of a ConditionalSystem
Parts(cs) == {cs.system} \cup {cs.conditions[i] : i \in 1..Len(cs.conditions)}

\* C23: once the wrapper is initialized, however many archetypes came and
\* however often its archetype access was updated, its component_access holds
\* the component_access of the main system and of every predicate, its
\* archetype_component_access holds their archetype_component_access, and no
\* call on it took an element out of either set.
C23_AccessSuperset ==
    csys.initialized =>
        /\ \A part \in Parts(csys) :
              /\ part.component_access \subseteq csys.component_access
              /\ part.archetype_component_access \subseteq csys.archetype_component_access
        /\ accObs.component_access \subseteq csys.component_access
        /\ accObs.archetype_component_access \subseteq csys.archetype_component_access

\* two predicates and a main system that access different components, two
\* archetypes, and an update after the second one came: the aggregate holds
\* more than the main system's own access
C23_Witness ==
    /\ csys.initialized
    /\ Len(csys.conditions) = 2
    /\ csys.system.component_access = {"c2"}
    /\ csys.conditions[1].component_access = {"c1"}
    /\ csys.conditions[2].component_access = {}
    /\ Len(archetypes) = 2
    /\ accObs.calls = 3
    /\ <<2, "c1">> \in csys.archetype_component_access
    /\ <<2, "c2">> \in csys.archetype_component_access
    /\ <<2, "c2">> \notin accObs.archetype_component_access
    /\ csys.component_access = {"c1", "c2"}

\* C24: the wrapper is send exactly when no part of it, main system or
\* predicate, is not send.
C24_SendIffAllSend ==
    csys.exists => (is_send(csys) <=> ~(\E part \in Parts(csys) : ~part.send))

\* a send main system, a send predicate and a predicate that is not send: the
\* wrapper is not send
C24_Witness ==
    /\ csys.exists
    /\ Len(csys.conditions) = 2
    /\ csys.system.send
    /\ csys.conditions[1].send
    /\ ~csys.conditions[2].send
    /\ ~is_send(csys)

\* the registry entry of L is the stage's (step, accumulator, paused)
InSync == timesteps.exists /\ timesteps.info[L] = Info(stage[L])

\* the latest tick made one pass and left the stage in locked mode
EndedLocked == HasRateLock /\ obs[L].lastN = 1 /\ ~lock_lt(stage[L])

\* C25 as stated: at the end of every tick that was not skipped the registry
\* entry of the stage is its (step, accumulator, paused), with or without a
\* rate lock.
C25_InSyncAtTickEnd == TickEnded => InSync

\* C25 amended: at the end of every tick that was not skipped the registry
\* entry holds the stage's step and paused, and its accumulator unless the tick
\* made exactly one pass and left the stage in locked mode; then the stage's
\* accumulator is half a step and the entry keeps what the pass left.
C25_InSyncUnlessLocked ==
    TickEnded =>
        /\ timesteps.exists /\ timesteps.info[L].present
        /\ timesteps.info[L].step = stage[L].step
        /\ timesteps.info[L].paused = stage[L].paused
        /\ IF EndedLocked
           THEN stage[L].accumulator = stage[L].step \div 2
           ELSE timesteps.info[L].accumulator = stage[L].accumulator

\* a tick of a stage with a rate lock that made one pass and ended in locked
\* mode: the entry's accumulator is not the stage's
C25_Witness ==
    /\ TickEnded
    /\ EndedLocked
    /\ obs[L].lockBefore < stage[L].rate_lock.n
    /\ timesteps.info[L].accumulator # stage[L].accumulator

\* a pass of the stage at pc.l begins and has a first child to run
FirstChildStarts == pc.at = "while" /\ pc'.at = "child"

\* C26: whenever a child of the stage labelled l is to run or running, the
\* registry's current is l and get_current gives the entry of l; and when the
\* first child of a pass starts, that entry holds the stage's step and paused
\* and the accumulator the stage had at the loop test less one step.
C26_CurrentInsideChild ==
    /\ [](pc.at = "child" =>
            /\ timesteps.exists
            /\ timesteps.current = pc.l
            /\ timesteps.info[pc.l].present
            /\ get_current(timesteps) = timesteps.info[pc.l])
    /\ [][FirstChildStarts =>
            /\ timesteps'.info[pc.l] =
                   Info([stage[pc.l] EXCEPT !.accumulator = @ - stage[pc.l].step])
            /\ get_current(timesteps') = timesteps'.info[pc.l]]_vars

\* the second child of the second pass of a tick that began with two steps to
\* take, after a child of the first pass halved the step: current is the stage's
\* label and the entry holds the new step and what is left of the accumulator
C26_Witness ==
    /\ pc.at = "child" /\ pc.l = L
    /\ pc.n_steps = 1 /\ pc.child = 2
    /\ writeLog.n = 1 /\ writeLog.first.by = "child" /\ writeLog.first.field = "step"
    /\ timesteps.current = L
    /\ get_current(timesteps).step = 50
    /\ get_current(timesteps).accumulator = 50

\* the latest invocation of the driver found no CurrentState, and has looked
AbsentAtInvocation == sobs.runs > 0 /\ sobs.was = "-" /\ ~(spc.at = "head" /\ trace = <<>>)

\* the events of the latest invocation up to its first look at NextState
SeedLen == IF driver.default \in driver.enter_stages THEN 2 ELSE 1

\* run returns
Returns == spc.at # "idle" /\ spc'.at = "idle"

\* C27: an invocation of the driver that finds no CurrentState, the first one
\* or one after user code removed it, first inserts CurrentState with the
\* default, then runs the enter stage of the default, if there is one, while
\* CurrentState holds the default, and takes NextState only after that; and
\* whenever run returns, CurrentState is present.
C27_SeedsWhenAbsent ==
    /\ [](AbsentAtInvocation =>
            /\ Len(trace) >= 1
            /\ trace[1] = [ev |-> "init", s |-> driver.default,
                           cur |-> driver.default, w |-> "-"]
            /\ driver.default \in driver.enter_stages =>
                  IF spc.at = "init_enter" /\ Len(trace) = 1
                  THEN current_state = Res(driver.default)
                  ELSE /\ Len(trace) >= 2
                       /\ trace[2].ev = "enter"
                       /\ trace[2].s = driver.default
                       /\ trace[2].cur = driver.default
            /\ \A i \in 1..Len(trace) : trace[i].ev = "take" => i > SeedLen)
    /\ [][Returns => current_state'.present]_vars

\* the second invocation, after user code removed CurrentState and asked for
\* B: the default was inserted, its enter stage ran, then B was taken, and the
\* driver returned with CurrentState(B)
C27_Witness ==
    /\ sobs.runs = 2 /\ sobs.was = "-" /\ sobs.asked = "B" /\ sobs.removed = 1
    /\ spc.at = "idle"
    /\ driver.default \in driver.enter_stages
    /\ Len(trace) >= 3
    /\ trace[1].ev = "init"
    /\ trace[2].ev = "enter" /\ trace[2].cur = driver.default
    /\ trace[3].ev = "take" /\ trace[3].s = "B"
    /\ current_state = Res("B")

\* run stores the stage's info: at the start of a pass, or after a loop that
\* made no pass
Publishes == pc.at = "while" /\ ~(pc'.at = "idle" /\ pc.n_steps > 0)

\* C28 (SpecFtsOut: code outside the stage writes the entry's accumulator
\* between ticks): the passes are those of a stage nobody wrote to, N = floor(D
\* / step) with N * step + accumulator = D for the total delta D, so no tick's
\* number of passes depends on what was written; and whenever the stage stores
\* its info the entry's accumulator is the stage's own again.
C28_OutsideAccumulatorIgnored ==
    /\ [](pc.at = "idle" =>
            /\ obs[L].N * stage[L].step + stage[L].accumulator = obs[L].D
            /\ obs[L].N = obs[L].D \div stage[L].step)
    /\ [][Publishes => timesteps'.info[pc.l].accumulator = stage'[pc.l].accumulator]_vars

\* after a first tick of 40 ms the accumulator of the entry was set to 150 ms from
\* outside; the second tick of 40 ms made no pass and stored 80 ms
C28_Witness ==
    /\ TickEnded
    /\ obs[L].runs = 2 /\ obs[L].D = 80 /\ obs[L].lastN = 0 /\ obs[L].N = 0
    /\ writeLog.n = 1
    /\ writeLog.first.by = "outside" /\ writeLog.first.run = 1
    /\ writeLog.first.field = "accumulator" /\ writeLog.first.val = 150
    /\ stage[L].accumulator = 80
    /\ timesteps.info[L].accumulator = 80

\* the only write so far: a child set the entry's accumulator during the
\* latest tick, which has ended
OneAccumulatorWrite ==
    /\ TickEnded
    /\ writeLog.n = 1
    /\ writeLog.first.by = "child" /\ writeLog.first.l = L
    /\ writeLog.first.field = "accumulator"
    /\ writeLog.first.run = obs[L].runs

\* C29 (SpecFtsCtl): once a child has returned, the stage's accumulator is the
\* one of the registry entry; and when a child's write of the value v to the
\* entry's accumulator in pass p is the only write, the tick makes p passes and
\* then as many as v holds steps, leaving the rest of v: more passes after
\* v >= step, none after v < step.
C29_ChildAccumulatorAdopted ==
    /\ AfterChild => stage[L].accumulator = timesteps.info[L].accumulator
    /\ OneAccumulatorWrite =>
          /\ obs[L].lastN = writeLog.first.pass + (writeLog.first.val \div stage[L].step)
          /\ stage[L].accumulator = writeLog.first.val % stage[L].step

\* a tick that began with 200 ms, two steps: the child set the accumulator to
\* 0 in the first pass, and no second pass was made
C29_Witness ==
    /\ OneAccumulatorWrite
    /\ obs[L].runs = 3 /\ obs[L].D = 200 /\ obs[L].accBefore = 80
    /\ writeLog.first.pass = 1 /\ writeLog.first.val = 0
    /\ obs[L].lastN = 1
    /\ stage[L].accumulator = 0

\* the only write so far: a child paused the timestep through the entry
PausedByChild ==
    /\ writeLog.n = 1
    /\ writeLog.first.by = "child" /\ writeLog.first.l = L
    /\ writeLog.first.field = "paused" /\ writeLog.first.val = 1

\* C30 (SpecFtsCtl): when a child sets paused in the registry entry during a
\* pass and nothing else is written, the tick still makes every pass its
\* accumulator holds and every pass runs all the children; every later run of
\* the stage returns as paused without running a child.
C30_PauseFromNextRun ==
    /\ (PausedByChild /\ TickEnded /\ writeLog.first.run = obs[L].runs) =>
          /\ obs[L].lastN = (obs[L].accBefore + obs[L].delta) \div stage[L].step
          /\ obs[L].trace = Repeat(stage[L].stages, obs[L].lastN)
          /\ stage[L].paused
    /\ (PausedByChild /\ writeLog.first.run < obs[L].runs) =>
          /\ pc.at = "idle"
          /\ obs[L].kind = "paused"
          /\ obs[L].trace = <<>>

\* a tick that began with 200 ms and two children: the first child paused the
\* timestep in the first pass, and both passes ran both children
C30_Witness ==
    /\ PausedByChild /\ TickEnded
    /\ writeLog.first.run = obs[L].runs
    /\ writeLog.first.pass = 1 /\ writeLog.first.child = 1
    /\ obs[L].accBefore + obs[L].delta = 200
    /\ Len(stage[L].stages) = 2
    /\ obs[L].lastN = 2
    /\ Len(obs[L].trace) = 4

\* the latest tick of L was not skipped, began in locked mode and its overstep
\* ratio was not within exit_deviation of 1.5
ExitsLock ==
    /\ BeganLocked /\ ~InBand
    /\ obs[L].kind \in {"running", "ran"}

Owed == (obs[L].accBefore + obs[L].delta) \div stage[L].step

\* no child has written the accumulator
AccumulatorLeftAlone ==
    \/ writeLog.n = 0
    \/ writeLog.n = 1 /\ writeLog.first.field = "paused"

\* every invocation of run returns
Terminates == (pc.at # "idle") ~> (pc.at = "idle")

\* C32 as stated (SpecFtsTerm: step > 0, no child raises the accumulator or
\* lowers the step): every tick terminates, and a tick that did not begin in
\* locked mode makes exactly floor((accumulator + delta) / step) passes.
C32_TerminatesExactly ==
    /\ []((TickEnded /\ ~BeganLocked) => obs[L].lastN = Owed)
    /\ Terminates

\* C32 amended: every tick terminates; a tick that did not begin in locked mode
\* makes at most floor((accumulator + delta) / step) passes, and exactly that
\* many when no child has written the accumulator.
C32_TerminatesAtMost ==
    /\ []((TickEnded /\ ~BeganLocked) =>
            /\ obs[L].lastN <= Owed
            /\ AccumulatorLeftAlone => obs[L].lastN = Owed)
    /\ Terminates

\* a stage with a rate lock, not locked, whose tick began with 200 ms and two
\* children, one of which paused the timestep: two passes, then run returned
C32_Witness ==
    /\ TickEnded /\ HasRateLock /\ ~BeganLocked
    /\ obs[L].accBefore + obs[L].delta = 200
    /\ Len(stage[L].stages) = 2
    /\ writeLog.n = 1 /\ writeLog.first.field = "paused"
    /\ obs[L].lastN = 2
    /\ stage[L].accumulator = 0

\* C33: after any invocation of run the registry holds an entry for the
\* stage's label, also for a stage built with paused() and after ticks without
\* Time.
C33_EntryAfterRun ==
    (pc.at = "idle" /\ obs[L].runs > 0) =>
        (timesteps.exists /\ timesteps.info[L].present)

\* a step of run of the stage labelled l
RunStep(l) == pc.l = l \/ pc'.l = l \/ obs'[l].runs # obs[l].runs

\* C34 (SpecFtsTwo: stages L1 and L2 in one schedule): no step of a tick of one
\* stage changes the registry entry or the fields of the other stage, and each
\* stage makes the passes its own deltas hold: N * step + accumulator = D with
\* its own N, D, step and accumulator.
C34_StagesIndependent ==
    /\ [][\A l \in Labels, k \in Labels :
            (l # k /\ RunStep(l)) =>
                /\ timesteps'.info[k] = timesteps.info[k]
                /\ stage'[k] = stage[k]
                /\ obs'[k] = obs[k]]_vars
    /\ [](pc.at = "idle" =>
            \A l \in Labels :
                /\ obs[l].N * stage[l].step + stage[l].accumulator = obs[l].D
                /\ stage[l].accumulator < stage[l].step)

\* two ticks of 120 ms for L1 and two of 40 ms for L2: two passes and none
C34_Witness ==
    /\ pc.at = "idle"
    /\ obs["L1"].runs = 2 /\ obs["L1"].D = 240 /\ obs["L1"].N = 2
    /\ obs["L2"].runs = 2 /\ obs["L2"].D = 80 /\ obs["L2"].N = 0
    /\ timesteps.info["L1"].accumulator = 40
    /\ timesteps.info["L2"].accumulator = 80
    /\ stage["L1"].accumulator = 40 /\ stage["L2"].accumulator = 80

\* the entries of the trace where an exit stage wrote NextState
ExitWrites == {i \in 1..Len(trace) : trace[i].ev = "exit" /\ trace[i].w # "-"}

\* the entries i..j of the trace without what the stages wrote
PlainPart(i, j) == [k \in 1..(j - i + 1) |-> Plain(trace[i + k - 1])]

\* C35 (SpecState): when the exit stage of X writes NextState = w during the
\* transition X -> Y, the transition goes on to Y: CurrentState becomes Y and
\* the enter stage of Y runs; then the same invocation removes NextState and
\* makes the transition from Y to w, or to what the enter stage of Y wrote in
\* its place, with its exit stage, the change of CurrentState and its enter
\* stage.
C35_ExitWriteFollowsUp ==
    spc.at = "idle" =>
        \A i \in ExitWrites :
            LET Y == trace[i - 1].s
                hasEnter == Y \in driver.enter_stages
                j == i + (IF hasEnter THEN 3 ELSE 2)
                e == IF hasEnter THEN trace[i + 2].w ELSE "-"
                Z == IF e # "-" THEN e ELSE trace[i].w
                then == Transition(Y, Z)
            IN  /\ trace[i - 1].ev = "take"
                /\ Len(trace) >= j + Len(then)
                /\ trace[i + 1] = Ev("set", Y, Y, "-")
                /\ hasEnter => Plain(trace[i + 2]) = Ev("enter", Y, Y, "-")
                /\ trace[j] = Ev("take", Z, Y, "-")
                /\ PlainPart(j + 1, j + Len(then)) = then

\* A -> B was asked for, the exit stage of A wrote C, the enter stage of B wrote
\* nothing: B was entered, then B -> C was made, in one invocation
C35_Witness ==
    /\ spc.at = "idle"
    /\ \E i \in ExitWrites :
          /\ trace[i - 1] = Ev("take", "B", "A", "-")
          /\ trace[i] = Ev("exit", "A", "A", "C")
          /\ Len(trace) >= i + 6
          /\ trace[i + 1] = Ev("set", "B", "B", "-")
          /\ trace[i + 2] = Ev("enter", "B", "B", "-")
          /\ trace[i + 3] = Ev("take", "C", "B", "-")
          /\ trace[i + 4] = Ev("exit", "B", "B", "-")
          /\ trace[i + 5] = Ev("set", "C", "C", "-")
          /\ trace[i + 6] = Ev("enter", "C", "C", "-")
    /\ current_state = Res("C")

\* the latest write of NextState from outside replaced one that no invocation
\* had looked at; the invocation that followed wrote no NextState in its stages
\* and has returned
Overwritten ==
    /\ spc.at = "idle" /\ sobs.runs > 0
    /\ sobs.over.at > 0 /\ sobs.over.at = sobs.outer
    /\ sobs.outerAt = sobs.outer
    /\ sobs.asked # "-"
    /\ sobs.inner = 0

\* what the driver does before it looks at NextState when it finds CurrentState
\* absent (was = "-") or present
Seeding(was) ==
    IF was # "-" THEN <<>>
    ELSE <<Ev("init", driver.default, driver.default, "-")>>
         \o (IF driver.default \in driver.enter_stages
             THEN <<Ev("enter", driver.default, driver.default, "-")>> ELSE <<>>)

\* C36 (SpecStateOver): writes of NextState between two invocations leave
\* CurrentState as it is; when several were made, x1 .. xn, the next invocation
\* makes one transition, from the current state to xn, and runs no stage for
\* any of x1 .. xn-1.
C36_LastWriteWins ==
    /\ [][(spc.at = "idle" /\ spc'.at = "idle") => current_state' = current_state]_vars
    /\ [](Overwritten =>
            LET from == IF sobs.was = "-" THEN driver.default ELSE sobs.was
                xn == sobs.over.new
            IN  /\ trace = Seeding(sobs.was) \o <<Ev("take", xn, from, "-")>>
                           \o Transition(from, xn)
                /\ sobs.trans = 1
                /\ current_state = Res(xn)
                /\ sobs.over.old \notin {from, xn} =>
                      \A i \in 1..Len(trace) : trace[i].s # sobs.over.old)

\* B was written and then C over it before the first invocation, which made the
\* one transition A -> C
C36_Witness ==
    /\ Overwritten
    /\ sobs.runs = 1 /\ sobs.over = [at |-> 2, old |-> "B", new |-> "C"]
    /\ driver.enter_stages = T /\ driver.exit_stages = T
    /\ trace = <<Ev("init", "A", "A", "-"), Ev("enter", "A", "A", "-"),
                 Ev("take", "C", "A", "-"), Ev("exit", "A", "A", "-"),
                 Ev("set", "C", "C", "-"), Ev("enter", "C", "C", "-")>>
    /\ current_state = Res("C")

\* the entries of the trace before entry j where a state was entered: the
\* driver seeded CurrentState or set it in a transition (the enter stage, if
\* there is one, is the next entry)
Entered(j) == {k \in 1..(j - 1) : trace[k].ev \in {"set", "init"}}

\* the state entered last before entry j of the trace; before the first of an
\* invocation, the state the invocation found
LastEntered(j) ==
    IF Entered(j) = {} THEN sobs.was
    ELSE trace[CHOOSE k \in Entered(j) : \A m \in Entered(j) : m <= k].s

\* C37 (SpecStatePure: user code leaves CurrentState to the driver): over all
\* invocations the driver first enters the default state and then only leaves
\* the state it entered last, which is CurrentState at that moment, to enter
\* another: every transition starts from the state entered last, exit stages
\* run for that state, each enter follows a seed or an exit of its own, and an
\* invocation begins in the state the one before ended in.
C37_ExitWhatWasEntered ==
    /\ [](\A j \in 1..Len(trace) :
            /\ trace[j].ev = "take" => trace[j].cur = LastEntered(j)
            /\ trace[j].ev = "exit" =>
                  /\ trace[j - 1].ev = "take"
                  /\ trace[j].s = LastEntered(j)
                  /\ trace[j].cur = trace[j].s
            /\ trace[j].ev = "set" =>
                  /\ j > 1
                  /\ trace[j - 1].ev \in {"take", "exit"}
            /\ trace[j].ev = "enter" =>
                  /\ trace[j - 1].ev \in {"set", "init"}
                  /\ trace[j].s = trace[j - 1].s
                  /\ trace[j].cur = trace[j].s
            /\ trace[j].ev = "init" =>
                  /\ j = 1 /\ sobs.runs = 1
                  /\ trace[j].s = driver.default)
    /\ [](sobs.runs >= 1 /\ spc.at \notin {"head", "init_enter"} =>
            /\ sobs.runs = 1 => (Len(trace) >= 1 /\ trace[1].ev = "init")
            /\ spc.at = "idle" => current_state = Res(LastEntered(Len(trace) + 1)))
    /\ [][(spc.at = "idle" /\ spc'.at = "head" /\ sobs.runs >= 1) =>
            sobs'.was = LastEntered(Len(trace) + 1)]_vars

\* the second invocation, with stages for every state: the first one went from
\* A to B, the second leaves B for C and, on the word of the enter stage of C,
\* leaves C for A
C37_Witness ==
    /\ spc.at = "idle" /\ sobs.runs = 2 /\ sobs.was = "B"
    /\ driver.enter_stages = T /\ driver.exit_stages = T
    /\ trace = <<Ev("take", "C", "B", "-"), Ev("exit", "B", "B", "-"),
                 Ev("set", "C", "C", "-"), Ev("enter", "C", "C", "A"),
                 Ev("take", "A", "C", "-"), Ev("exit", "C", "C", "-"),
                 Ev("set", "A", "A", "-"), Ev("enter", "A", "A", "-")>>
    /\ current_state = Res("A")

\* the transitions an invocation can owe: one for a NextState it found, one for
\* each NextState its stages wrote
Owes == sobs.inner + (IF sobs.asked # "-" THEN 1 ELSE 0)

\* C38 (SpecStateFair: the stages of all invocations write NextState a bounded
\* number of times): an invocation whose stages have written NextState k times
\* has made at most k transitions, and one more if it found a NextState; it
\* returns; and when it returns NextState is absent and CurrentState is the
\* state entered last.
C38_DriverTerminates ==
    /\ [](sobs.trans <= Owes)
    /\ [][Returns =>
            /\ ~next_state'.present
            /\ current_state' = Res(LastEntered(Len(trace) + 1))]_vars
    /\ (spc.at # "idle") ~> (spc.at = "idle")

\* an invocation that found NextState(B) and whose stages wrote NextState
\* twice: three transitions, then it returned with nothing pending
C38_Witness ==
    /\ spc.at = "idle" /\ sobs.runs >= 1
    /\ sobs.asked = "B" /\ sobs.inner = 2
    /\ sobs.trans = 3
    /\ Count("take") = 3
    /\ ~next_state.present
    /\ current_state = Res(trace[Len(trace) - 1].s)


-----------------------------------------------------------------------------
(* Claims about predicates on a resource, under SpecGate and SpecStateGate *)

\* the latest invocation of the gated system evaluated the removal predicate
Evaluated == robs.runs > 0 /\ robs.evaluated

\* C39: an evaluation of a run_if_resource_removed predicate returns true
\* exactly when R is absent at it and was present at the evaluation of the same
\* instance before it; so it never returns true at the first evaluation, nor
\* when no earlier evaluation found R, nor when R, removed and inserted again
\* since the evaluation before, is there, and it returns true at most once for
\* each removal; an invocation that an earlier predicate cuts short leaves the
\* instance as it was
C39_FiresOncePerSeenRemoval ==
    /\ Evaluated =>
         /\ robs.fired <=> (robs.now = "absent" /\ robs.prev = "present")
         /\ robs.evals = 1 => ~robs.fired
         /\ ~robs.sawR => ~robs.fired
         /\ (robs.readded /\ robs.now = "present") => ~robs.fired
    /\ robs.fires <= robs.removals
    /\ existed <=> (robs.now = "present")

\* R was removed twice and an earlier predicate cut an invocation short; of the
\* two evaluations the first found R and the second, R being gone, returned
\* true: one of the removals went by without a true result
C39_Witness ==
    /\ Evaluated
    /\ robs.fired
    /\ robs.removals = 2
    /\ robs.fires = 1
    /\ robs.runs > robs.evals
    /\ robs.evals = 2


\* the four gates agree with what the resource is: 'if' forms
GatesIf(is) == gobs.equals = is /\ gobs.in_state = is

\* the four gates agree with what the resource is: 'unless' forms
GatesUnless(is) == gobs.unless = is /\ gobs.not_in_state = is

\* C40: run_if_resource_equals(v) and run_in_state(s) let the system run
\* exactly when the resource is there and equals the value;
\* run_unless_resource_equals(v) and run_not_in_state(s) let it run exactly when
\* the resource is there and differs from the value; with the resource absent,
\* as CurrentState is before the first invocation of the driver, all of them
\* keep the system from running
C40_GatesClosedWhenAbsent ==
    gobs.done =>
        /\ GatesIf(gobs.res.present /\ gobs.res.val = gobs.state)
        /\ GatesUnless(gobs.res.present /\ gobs.res.val # gobs.state)
        /\ ~gobs.res.present => (GatesIf(FALSE) /\ GatesUnless(FALSE))

\* the gates were evaluated before the first invocation of the driver, with
\* CurrentState absent: neither form lets the system run
C40_Witness ==
    /\ gobs.done
    /\ sobs.runs = 0
    /\ ~gobs.res.present
    /\ ~gobs.equals /\ ~gobs.unless
    /\ ~gobs.in_state /\ ~gobs.not_in_state

=============================================================================
